---- MODULE Spec2Model ----
(***************************************************************************)
(* A model of covasim's intervention engine (covasim/interventions.py),  *)
(* of the parameters it edits (covasim/parameters.py) and of the          *)
(* construction of the population (covasim/population.py).                *)
(*                                                                         *)
(* Python floats are modelled as exact fractions [n |-> numerator,        *)
(* d |-> denominator], kept in lowest terms; d = 0 stands for a           *)
(* non-finite value (n = 1: inf).  A Python None is the empty sequence    *)
(* and a value v that may be None is <<v>>.                               *)
(***************************************************************************)
EXTENDS Integers, Sequences, FiniteSets, TLC

VARIABLES
    t,        \* sim.t: the current day
    applied,  \* whether the intervention's apply has been called for day t
    err,      \* the exception that ended the program, "none" while it runs
    pars,     \* sim.pars: the live parameters interventions edit
    cb,       \* the change_beta instance
    dp,       \* the dynamic_pars instance
    sq,       \* the sequence instance
    tn,       \* the test_num instance
    people,   \* sim.people: the agents' flags read and written by testing
    results,  \* sim.results: new_tests and new_diagnoses per day
    log,      \* what the last apply call invoked on the collaborators
    call,     \* the arguments of the constructor call made
    tp,       \* the test_prob instance
    ct,       \* the contact_tracing instance
    th,       \* the test_historical instance
    contacts, \* the contacts made by the population builder, per agent
    ind,      \* the child the sequence's last apply dispatched to, None before
    fill,     \* the frame of a call of make_microstructured_contacts
    sim,      \* the simulation's stored population and what make_people did
    runs      \* the graph constructions made, each with the draws it consumed

vars == <<t, applied, err, pars, cb, dp, sq, tn, people, results, log, call, tp, ct, th, contacts, ind, fill, sim, runs>>

\* ------------------------------------------------------------------ bounds

\* Days 0 .. MaxDay are simulated.
MaxDay == 2
\* The longest days / changes / vals / daily_tests list given to a constructor.
MaxSched == 2
\* The population size.
NAgents == 2

Days == 0 .. MaxDay
\* The days a schedule may name.
SchedDays == {0, 1}

\* ------------------------------------------------------------------ floats

RECURSIVE GCD(_, _)
GCD(a, b) == IF b = 0 THEN a ELSE GCD(b, a % b)

\* The float n/d, in lowest terms.
Fin(n, d) == LET g == GCD(n, d) IN [n |-> n \div g, d |-> d \div g]

Zero == [n |-> 0, d |-> 1]
One == [n |-> 1, d |-> 1]
Half == [n |-> 1, d |-> 2]
Inf == [n |-> 1, d |-> 0]

\* pl.isfinite(x)
IsFinite(x) == x.d # 0

\* bool(x): a float is falsy only when it is zero
Truthy(x) == ~(x.n = 0 /\ x.d # 0)

\* x * y on finite floats
FMul(x, y) == Fin(x.n * y.n, x.d * y.d)

\* x + y; anything plus inf is inf
FAdd(x, y) ==
    IF IsFinite(x) /\ IsFinite(y) THEN Fin(x.n * y.d + y.n * x.d, x.d * y.d)
    ELSE Inf

\* x <= y on finite floats
FLeq(x, y) == x.n * y.d <= y.n * x.d

\* ------------------------------------------------------------- parameters

\* The layers of a layered simulation that the model follows.
LayerKeys == {"h", "s"}

\* make_pars: pars['beta'] = 0.015
DefaultBeta == Fin(15, 1000)

\* set_contacts: pars['beta_layers'] = {'h': 1.7, 's': 0.8, ...}
DefaultBetaLayers == [k \in LayerKeys |-> IF k = "h" THEN Fin(17, 10) ELSE Fin(8, 10)]

make_pars == [beta |-> DefaultBeta, beta_layers |-> DefaultBetaLayers]

\* sc.findinds(arr, val): the indices of arr holding val (1-based here)
findinds(arr, val) == {i \in 1 .. Len(arr) : arr[i] = val}

\* All sequences over S of length at most n.
SeqsUpTo(S, n) == UNION {[1 .. k -> S] : k \in 0 .. n}

\* No call of make_microstructured_contacts is in progress.
NoFill ==
    [pc |-> "idle", pop_size |-> 0, contacts |-> <<>>, contact_keys |-> <<>>,
     todo |-> <<>>, layer_name |-> "", cluster_size |-> 0, n_remaining |-> 0,
     contacts_dict |-> <<>>, contacts_list |-> <<>>, clusters |-> <<>>, rng |-> 0]

\* No constructor has been called yet.
NoCall == [kind |-> "none", a |-> <<>>, b |-> <<>>]

\* ------------------------------------------------------------ change_beta

\* The change factors a schedule may name (1 = no change).
ChangeVals == {Half, One}

\* The layers argument: None (the overall beta) or a layer key.
LayerArgs == {"None"} \cup LayerKeys

\* The key of orig_betas a layers entry is stored under.
OrigKeyOverall(layer) == "overall"
OrigKey(layer) == IF layer = "None" THEN "overall" ELSE layer

NoChangeBeta ==
    [made |-> FALSE, days |-> <<>>, changes |-> <<>>, layers |-> {},
     cached |-> FALSE, orig_betas |-> <<>>]

\* The live value a key of orig_betas stands for.
LiveBeta(p, key) == IF key = "overall" THEN p.beta ELSE p.beta_layers[key]

\* change_beta.__init__: the length check
BetaLengthsDiffer(days, changes) == Len(days) # Len(changes)

\* change_beta.__init__
change_beta_init ==
    /\ err = "none" /\ call.kind = "none"
    /\ \E days \in SeqsUpTo(SchedDays, MaxSched),
          changes \in SeqsUpTo(ChangeVals, MaxSched),
          layers \in SUBSET LayerArgs :
        /\ call' = [kind |-> "change_beta", a |-> days, b |-> changes]
        /\ IF BetaLengthsDiffer(days, changes)
           THEN /\ err' = "ValueError"
                /\ cb' = cb
           ELSE /\ cb' = [made |-> TRUE, days |-> days, changes |-> changes,
                          layers |-> layers, cached |-> FALSE, orig_betas |-> <<>>]
                /\ err' = err
    /\ UNCHANGED <<t, applied, pars, dp, sq, tn, people, results, log, tp, ct, th, contacts, ind, fill, sim, runs>>

\* change_beta.apply: "if self.orig_betas is None"
NeedsSnapshotAlways(c) == TRUE
NeedsSnapshot(c) == ~c.cached

\* change_beta.apply: the baseline stored on the first call
Snapshot(c, p) == [k \in {OrigKey(l) : l \in c.layers} |-> LiveBeta(p, k)]

\* change_beta.apply: the value the compounding of a layer starts from
StartBetaLive(orig_betas, p, key) == LiveBeta(p, key)
StartBeta(orig_betas, p, key) == orig_betas[key]

\* change_beta.apply: "for ind in inds: new_beta = new_beta * self.changes[ind]"
RECURSIVE Compound(_, _, _, _)
Compound(new_beta, changes, inds, i) ==
    IF i > Len(changes) THEN new_beta
    ELSE Compound(IF i \in inds THEN FMul(new_beta, changes[i]) ELSE new_beta,
                  changes, inds, i + 1)

\* change_beta.apply: the parameters after the write of one day
BetaWrite(c, orig_betas, p, inds) ==
    LET new(key) == Compound(StartBeta(orig_betas, p, key), c.changes, inds, 1)
    IN  [beta |-> IF "overall" \in DOMAIN orig_betas THEN new("overall") ELSE p.beta,
         beta_layers |-> [k \in LayerKeys |->
                            IF k \in DOMAIN orig_betas THEN new(k) ELSE p.beta_layers[k]]]

\* change_beta.apply
change_beta_apply ==
    /\ err = "none" /\ cb.made /\ ~applied
    /\ LET orig_betas == IF NeedsSnapshot(cb) THEN Snapshot(cb, pars) ELSE cb.orig_betas
           inds == findinds(cb.days, t)
       IN  /\ cb' = [cb EXCEPT !.cached = TRUE, !.orig_betas = orig_betas]
           /\ pars' = IF inds # {} THEN BetaWrite(cb, orig_betas, pars, inds) ELSE pars
    /\ applied' = TRUE
    /\ UNCHANGED <<t, err, dp, sq, tn, people, results, log, call, tp, ct, th, contacts, ind, fill, sim, runs>>

\* A value another intervention writes (dynamic_pars: 'vals': [0.005, 0.015]).
OtherVals == {Fin(5, 1000)}

\* Another intervention of the same simulation overwrites a live parameter
\* ("sim[parkey] = val").
OtherWrite ==
    /\ err = "none" /\ cb.made
    /\ \E key \in {"overall"} \cup LayerKeys, v \in OtherVals :
        /\ LiveBeta(pars, key) # v
        /\ pars' = IF key = "overall" THEN [pars EXCEPT !.beta = v]
                   ELSE [pars EXCEPT !.beta_layers[key] = v]
    /\ UNCHANGED <<t, applied, err, cb, dp, sq, tn, people, results, log, call, tp, ct, th, contacts, ind, fill, sim, runs>>

\* The simulation loop: the next day begins once the interventions have run.
NextDay ==
    /\ err = "none" /\ applied /\ t < MaxDay
    /\ t' = t + 1
    /\ applied' = FALSE
    /\ UNCHANGED <<err, pars, cb, dp, sq, tn, people, results, log, call, tp, ct, th, contacts, ind, fill, sim, runs>>

\* ----------------------------------------------------------- dynamic_pars

\* The parameters the schedules target: a scalar one and a mapping one.
DynKeys == {"beta", "beta_layers"}

\* A scheduled value, with what isinstance(val, dict) answers for it.
Scalar(x) == [dict |-> FALSE, v |-> x]
Dict(m) == [dict |-> TRUE, v |-> m]

\* The values a schedule may name for a parameter.
DynVals(key) ==
    IF key = "beta" THEN {Scalar(Fin(5, 1000)), Scalar(Fin(15, 1000))}
    ELSE {Dict("h" :> Half), Dict("s" :> Half)}

\* pars[parkey]: the sub-keys 'days' and 'vals' of one parameter, either of
\* which may be missing.
DynEntries(key) ==
    {[key |-> key, has_days |-> hd, has_vals |-> hv, days |-> d, vals |-> v] :
        hd \in {TRUE}, hv \in {TRUE},
        d \in SeqsUpTo(SchedDays, MaxSched), v \in SeqsUpTo(DynVals(key), MaxSched)}
    \cup
    {[key |-> key, has_days |-> FALSE, has_vals |-> hv, days |-> <<>>, vals |-> v] :
        hv \in {TRUE}, v \in SeqsUpTo(DynVals(key), MaxSched)}
    \cup
    {[key |-> key, has_days |-> hd, has_vals |-> FALSE, days |-> d, vals |-> <<>>] :
        hd \in {TRUE}, d \in SeqsUpTo(SchedDays, MaxSched)}
    \cup
    {[key |-> key, has_days |-> FALSE, has_vals |-> FALSE, days |-> <<>>, vals |-> <<>>]}

NoDynPars == [made |-> FALSE, pars |-> <<>>]

\* dynamic_pars.__init__: "if subkey not in pars[parkey].keys()"
DynMissingSubkey(e) == ~e.has_days \/ ~e.has_vals

\* dynamic_pars.__init__: "if len_days != len_vals"
DynLengthsDifferOneWay(e) == Len(e.days) > Len(e.vals)
DynLengthsDiffer(e) == Len(e.days) # Len(e.vals)

\* dynamic_pars.__init__: the loop over the parameters; the exception of the
\* first parameter that fails a check, "none" when every parameter passes
RECURSIVE DynCheck(_, _)
DynCheck(cfg, i) ==
    IF i > Len(cfg) THEN "none"
    ELSE IF DynMissingSubkey(cfg[i]) THEN "KeyError"
    ELSE IF DynLengthsDiffer(cfg[i]) THEN "ValueError"
    ELSE DynCheck(cfg, i + 1)

\* dynamic_pars.__init__, called with pars = cfg
DynInit(cfg) ==
    /\ call' = [kind |-> "dynamic_pars", a |-> cfg, b |-> <<>>]
    /\ IF DynCheck(cfg, 1) # "none"
       THEN /\ err' = DynCheck(cfg, 1)
            /\ dp' = dp
       ELSE /\ dp' = [made |-> TRUE, pars |-> cfg]
            /\ err' = err

\* dynamic_pars.__init__; the pars argument is a dict, in its iteration
\* order, of up to two parameters
dynamic_pars_init ==
    /\ err = "none" /\ call.kind = "none"
    /\ \/ DynInit(<<>>)
       \/ \E k \in DynKeys : \E e \in DynEntries(k) : DynInit(<<e>>)
       \/ \E k1 \in DynKeys : \E k2 \in DynKeys \ {k1} :
             \E e1 \in DynEntries(k1) : \E e2 \in DynEntries(k2) : DynInit(<<e1, e2>>)
    /\ UNCHANGED <<t, applied, pars, cb, sq, tn, people, results, log, tp, ct, th, contacts, ind, fill, sim, runs>>

\* dynamic_pars.apply: "sim[parkey].update(val)"
DictUpdate(old, val) ==
    [k \in DOMAIN old \cup DOMAIN val |-> IF k \in DOMAIN val THEN val[k] ELSE old[k]]

\* dynamic_pars.apply: the write of one scheduled value
DynSet(p, key, val) ==
    IF val.dict THEN [p EXCEPT ![key] = DictUpdate(@, val.v)]
    ELSE [p EXCEPT ![key] = val.v]

\* dynamic_pars.apply: the loop over the parameters from the i-th on; the
\* parameters as left by the loop and the exception that ended it
RECURSIVE DynLoop(_, _, _, _)
DynLoop(p, cfg, i, day) ==
    IF i > Len(cfg) THEN [pars |-> p, err |-> "none"]
    ELSE LET inds == findinds(cfg[i].days, day)
         IN  IF inds = {} THEN DynLoop(p, cfg, i + 1, day)
             ELSE IF Cardinality(inds) > 1 THEN [pars |-> p, err |-> "ValueError"]
             ELSE LET val == cfg[i].vals[CHOOSE j \in inds : TRUE]
                  IN  DynLoop(DynSet(p, cfg[i].key, val), cfg, i + 1, day)

\* dynamic_pars.apply
dynamic_pars_apply ==
    /\ err = "none" /\ dp.made /\ ~applied
    /\ LET r == DynLoop(pars, dp.pars, 1, t)
       IN  /\ pars' = r.pars
           /\ err' = r.err
    /\ applied' = TRUE
    /\ UNCHANGED <<t, cb, dp, sq, tn, people, results, log, call, tp, ct, th, contacts, ind, fill, sim, runs>>

\* --------------------------------------------------------------- sequence

\* The child interventions of the sequence, by class.
ChildKinds == {"test_historical", "test_prob"}

\* The durations a sequence may name.
Durations == 1 .. MaxDay

NoSequence == [made |-> FALSE, days |-> <<>>, interventions |-> <<>>, cum_days |-> <<>>]

\* np.cumsum(days)
RECURSIVE SumTo(_, _)
SumTo(days, i) == IF i = 0 THEN 0 ELSE days[i] + SumTo(days, i - 1)

cumsum(days) == [i \in 1 .. Len(days) |-> SumTo(days, i)]

\* sequence.__init__: "assert len(days) == len(interventions)"
SeqLengthsDiffer(days, interventions) == Len(days) # Len(interventions)

\* sequence.__init__
sequence_init ==
    /\ err = "none" /\ call.kind = "none"
    /\ \E days \in SeqsUpTo(Durations, MaxSched),
          interventions \in SeqsUpTo(ChildKinds, MaxSched) :
        /\ call' = [kind |-> "sequence", a |-> days, b |-> interventions]
        /\ IF SeqLengthsDiffer(days, interventions)
           THEN /\ err' = "AssertionError"
                /\ sq' = sq
           ELSE /\ sq' = [made |-> TRUE, days |-> days, interventions |-> interventions,
                          cum_days |-> cumsum(days)]
                /\ err' = err
    /\ UNCHANGED <<t, applied, pars, cb, dp, tn, people, results, log, tp, ct, th, contacts, ind, fill, sim, runs>>

\* --------------------------------------------------------------- test_num

\* sim.people: the agents, by population index.
Agents == 1 .. NAgents

\* A Person as the testing interventions see it.  date_diagnosed is None
\* (<<>>) or a day (<<d>>).
NewPersons ==
    [symptomatic : BOOLEAN, infectious : BOOLEAN, known_contact : BOOLEAN,
     diagnosed : {FALSE}, date_diagnosed : {<<>>}]

\* sim.results['new_tests'] and ['new_diagnoses']: zero for every day
NewResults == [new_tests |-> [d \in Days |-> Zero], new_diagnoses |-> [d \in Days |-> 0]]

\* What an apply call has invoked: the agents check_diagnosed was called on,
\* in call order; whether choose_weighted was called and with which
\* propensities and count; the agents test was called on.
NoLog == [checked |-> <<>>, drew |-> FALSE, probs |-> <<>>, n |-> Zero, tested |-> {}]

\* Person.check_diagnosed(t) returns 1: the diagnosis date has come
NewlyDiagnosed(p, day) ==
    /\ ~p.diagnosed
    /\ p.date_diagnosed # <<>>
    /\ day >= p.date_diagnosed[1]

\* Person.check_diagnosed(t): the person afterwards
check_diagnosed(p, day) ==
    IF NewlyDiagnosed(p, day) THEN [p EXCEPT !.diagnosed = TRUE] ELSE p

\* Person.test(t, sensitivity, test_delay): the person afterwards; positive is
\* the outcome of the sensitivity draw
test(p, day, positive, test_delay) ==
    IF /\ p.infectious
       /\ positive
       /\ (p.date_diagnosed = <<>> \/ p.date_diagnosed[1] > day + test_delay)
    THEN [p EXCEPT !.date_diagnosed = <<day + test_delay>>]
    ELSE p

\* int(x) of a non-negative finite float
IntOf(x) == x.n \div x.d

\* cv.choose_weighted(probs, n, normalize=True): the samples it may return,
\* each a set of distinct indices of positive propensity, as many as
\* requested or all of them when fewer are eligible
choose_weighted(probs, n) ==
    LET eligible == {i \in DOMAIN probs : probs[i].n > 0}
        want == IF IsFinite(n) /\ n.n > 0 THEN IntOf(n) ELSE 0
        size == IF want < Cardinality(eligible) THEN want ELSE Cardinality(eligible)
    IN  {S \in SUBSET eligible : Cardinality(S) = size}

\* The daily budgets a test_num is constructed with: none, a fraction of a
\* test (0.0002 * 1000 people), whole numbers, and a non-finite number.
BudgetVals == {Zero, Half, One, Fin(2, 1), Inf}
\* The boosts and the delay it is constructed with: the defaults, but for a
\* trace_test other than 1.0, under which the boost of a known contact shows.
SymptVals == {Fin(100, 1)}
TraceVals == {Fin(2, 1)}
DelayVals == {0}

NoTestNum ==
    [made |-> FALSE, daily_tests |-> <<>>, sympt_test |-> One, trace_test |-> One,
     test_delay |-> 0]

\* test_num.__init__
test_num_init ==
    /\ err = "none" /\ call.kind = "none"
    /\ \E daily_tests \in SeqsUpTo(BudgetVals, MaxSched),
          sympt_test \in SymptVals, trace_test \in TraceVals, test_delay \in DelayVals :
        /\ tn' = [made |-> TRUE, daily_tests |-> daily_tests, sympt_test |-> sympt_test,
                  trace_test |-> trace_test, test_delay |-> test_delay]
        /\ call' = [kind |-> "test_num", a |-> daily_tests, b |-> <<>>]
    /\ UNCHANGED <<t, applied, err, pars, cb, dp, sq, people, results, log, tp, ct, th, contacts, ind, fill, sim, runs>>

\* test_num.apply: "if t < len(self.daily_tests)": today's budget, None when
\* the budgets have run out
DailyBudgetPadded(c, day) ==
    IF day < Len(c.daily_tests) THEN <<c.daily_tests[day + 1]>>
    ELSE IF Len(c.daily_tests) > 0 THEN <<c.daily_tests[Len(c.daily_tests)]>>
    ELSE <<>>
DailyBudget(c, day) ==
    IF day < Len(c.daily_tests) THEN <<c.daily_tests[day + 1]>> ELSE <<>>

\* test_num.apply: "if not (n_tests and pl.isfinite(n_tests))"
NoTestsToday(n_tests) == ~(Truthy(n_tests) /\ IsFinite(n_tests))

\* test_num.apply: test_probs[i] after the three if statements
TestProbKeepsDiagnosed(p, c) ==
    LET sympt == IF p.symptomatic THEN FMul(One, c.sympt_test) ELSE One
    IN  IF p.known_contact THEN FMul(sympt, c.trace_test) ELSE sympt
TestProbElif(p, c) ==
    IF p.diagnosed THEN Zero
    ELSE IF p.symptomatic THEN FMul(One, c.sympt_test)
    ELSE IF p.known_contact THEN FMul(One, c.trace_test)
    ELSE One
TestProb(p, c) ==
    LET sympt == IF p.symptomatic THEN FMul(One, c.sympt_test) ELSE One
        traced == IF p.known_contact THEN FMul(sympt, c.trace_test) ELSE sympt
    IN  IF p.diagnosed THEN Zero ELSE traced

\* test_num.apply: "sim.results['new_tests'][t] += n_tests"
CountTestsOne(res, day, n_tests) == [res EXCEPT !.new_tests[day] = FAdd(@, One)]
CountTests(res, day, n_tests) == [res EXCEPT !.new_tests[day] = FAdd(@, n_tests)]

\* test_num.apply
test_num_apply ==
    /\ err = "none" /\ tn.made /\ ~applied
    /\ applied' = TRUE
    /\ IF DailyBudget(tn, t) = <<>>
       THEN /\ log' = NoLog
            /\ UNCHANGED <<people, results>>
       ELSE LET n_tests == DailyBudget(tn, t)[1]
                counted == CountTests(results, t, n_tests)
            IN  IF NoTestsToday(n_tests)
                THEN /\ results' = counted
                     /\ log' = NoLog
                     /\ UNCHANGED people
                ELSE LET checked == [i \in Agents |-> check_diagnosed(people[i], t)]
                         new_diagnoses ==
                             Cardinality({i \in Agents : NewlyDiagnosed(people[i], t)})
                         test_probs == [i \in Agents |-> TestProb(checked[i], tn)]
                     IN  \E test_inds \in choose_weighted(test_probs, n_tests) :
                         \E positive \in SUBSET {i \in test_inds : people[i].infectious} :
                            /\ people' = [i \in Agents |->
                                    IF i \in test_inds
                                    THEN test(checked[i], t, i \in positive, tn.test_delay)
                                    ELSE checked[i]]
                            /\ results' = [counted EXCEPT
                                              !.new_diagnoses[t] = @ + new_diagnoses]
                            /\ log' = [checked |-> [i \in Agents |-> i], drew |-> TRUE,
                                       probs |-> test_probs, n |-> n_tests,
                                       tested |-> test_inds]
    /\ UNCHANGED <<t, err, pars, cb, dp, sq, tn, call, tp, ct, th, contacts, ind, fill, sim, runs>>

\* -------------------------------------------------------------- test_prob

\* A mapping from contacts to notification delays holds, for every agent,
\* its delay <<d>> or, when the agent is no key of it, <<>>.  An empty
\* dyn_cont_ppl:
NoContacts == [j \in Agents |-> <<>>]

\* The keys of such a mapping.
Keys(m) == {j \in Agents : m[j] # <<>>}

\* dict.update for such mappings: the entries of val replace those of old
ContactsUpdate(old, val) == [j \in Agents |-> IF val[j] # <<>> THEN val[j] ELSE old[j]]

\* A Person as test_prob sees it, before any testing.
ProbPersons ==
    [symptomatic : BOOLEAN, infectious : BOOLEAN, known_contact : {FALSE},
     diagnosed : {FALSE}, date_diagnosed : {<<>>}, date_known_contact : {<<>>},
     dyn_cont_ppl : {NoContacts}]

\* What an apply call of test_prob has invoked: the calls of check_diagnosed
\* and test, in call order, and the Bernoulli draws made, in draw order.
NoProbLog == [calls |-> <<>>, draws |-> <<>>]

\* The probabilities and the first day a test_prob or a contact_tracing is
\* constructed with: every symptomatic agent and some of the others are
\* tested, or some symptomatic agents and none of the others; test_delay is
\* the default.
ProbPairs ==
    {[symptomatic_prob |-> One, asymptomatic_prob |-> Half],
     [symptomatic_prob |-> Half, asymptomatic_prob |-> Zero]}
StartDays == {0, 1}
ProbDelayVals == {1}

NoTestProb ==
    [made |-> FALSE, symptomatic_prob |-> Zero, asymptomatic_prob |-> Zero,
     test_delay |-> 1, start_day |-> 0]

\* test_prob.__init__
test_prob_init ==
    /\ err = "none" /\ call.kind = "none"
    /\ \E probs \in ProbPairs, test_delay \in ProbDelayVals, start_day \in StartDays :
        /\ tp' = [made |-> TRUE, symptomatic_prob |-> probs.symptomatic_prob,
                  asymptomatic_prob |-> probs.asymptomatic_prob,
                  test_delay |-> test_delay, start_day |-> start_day]
        /\ call' = [kind |-> "test_prob",
                    a |-> <<probs.symptomatic_prob, probs.asymptomatic_prob>>,
                    b |-> <<start_day>>]
    /\ UNCHANGED <<t, applied, err, pars, cb, dp, sq, tn, people, results, log, ct, th, contacts, ind, fill, sim, runs>>

\* cv.bt(prob): the outcomes a Bernoulli trial of this probability can have
bt(prob) ==
    IF prob.n <= 0 THEN {FALSE}
    ELSE IF FLeq(One, prob) THEN {TRUE}
    ELSE BOOLEAN

\* test_prob.apply, contact_tracing.apply: "if t < self.start_day: return"
BeforeStartInclusive(c, day) == day <= c.start_day
BeforeStart(c, day) == day < c.start_day

\* test_prob.apply: the probability of the first draw made for a person:
\* that of the first operand of "or" for a symptomatic person, that of the
\* second operand for an asymptomatic one
DrawProbSymptomaticOnly(p, c) == c.symptomatic_prob
DrawProb(p, c) == IF p.symptomatic THEN c.symptomatic_prob ELSE c.asymptomatic_prob

\* test_prob.apply: whether the draw of the second operand of "or",
\* "not person.symptomatic and cv.bt(self.asymptomatic_prob)", is made for
\* a symptomatic person whose first operand had the value first: "and"
\* evaluates its second operand only when its first is true
SecondDrawOnFailure(p, first) == ~first
SecondDraw(p, first) == ~first /\ ~p.symptomatic

\* test_prob.apply: the condition of the "if" for a person: the outcomes it
\* can have, each with the draws made, in order, and the condition's value.
\* The first draw made is the one of the operand that is not cut short.
Condition(p, c) ==
    UNION {
        LET one == [prob |-> DrawProb(p, c), hit |-> h]
        IN  IF p.symptomatic /\ SecondDraw(p, h)
            THEN {[draws |-> <<one, [prob |-> c.asymptomatic_prob, hit |-> again]>>,
                   hit |-> again] : again \in bt(c.asymptomatic_prob)}
            ELSE {[draws |-> <<one>>, hit |-> h]}
        : h \in bt(DrawProb(p, c))}

\* The draws made for the i-th person, as the log keeps them.
DrawsOf(i, cond) ==
    [k \in DOMAIN cond.draws |->
        [agent |-> i, prob |-> cond.draws[k].prob, hit |-> cond.draws[k].hit]]

\* test_prob.apply: the loop over sim.people from the i-th person on: the
\* outcomes it can have, one for each outcome of the persons' draws and of
\* the tests made
RECURSIVE ProbLoop(_, _)
ProbLoop(st, i) ==
    IF i > NAgents THEN {st}
    ELSE LET checked == check_diagnosed(st.people[i], t)
             diag == IF NewlyDiagnosed(st.people[i], t) THEN 1 ELSE 0
         IN  UNION {
                 IF cond.hit
                 THEN UNION {
                     ProbLoop([people |-> [j \in Agents |->
                                              IF j = i
                                              THEN test(checked, t, positive, tp.test_delay)
                                              ELSE st.people[j]],
                               results |-> [st.results EXCEPT !.new_tests[t] = FAdd(@, One)],
                               calls |-> st.calls \o <<<<"check_diagnosed", i>>, <<"test", i>>>>,
                               draws |-> st.draws \o DrawsOf(i, cond),
                               new_diagnoses |-> st.new_diagnoses + diag], i + 1)
                     : positive \in IF checked.infectious THEN BOOLEAN ELSE {FALSE}}
                 ELSE ProbLoop([people |-> [j \in Agents |->
                                              IF j = i THEN checked ELSE st.people[j]],
                                results |-> st.results,
                                calls |-> Append(st.calls, <<"check_diagnosed", i>>),
                                draws |-> st.draws \o DrawsOf(i, cond),
                                new_diagnoses |-> st.new_diagnoses + diag], i + 1)
                 : cond \in Condition(checked, tp)}

\* test_prob.apply: what the call does to the simulation
test_prob_body ==
    /\ IF BeforeStart(tp, t)
       THEN /\ log' = NoProbLog
            /\ UNCHANGED <<people, results>>
       ELSE \E done \in ProbLoop([people |-> people, results |-> results,
                                  calls |-> <<>>, draws |-> <<>>,
                                  new_diagnoses |-> 0], 1) :
               /\ people' = done.people
               /\ results' = [done.results EXCEPT
                                 !.new_diagnoses[t] = @ + done.new_diagnoses]
               /\ log' = [calls |-> done.calls, draws |-> done.draws]

\* test_prob.apply
test_prob_apply ==
    /\ err = "none" /\ tp.made /\ ~applied
    /\ applied' = TRUE
    /\ test_prob_body
    /\ UNCHANGED <<t, err, pars, cb, dp, sq, tn, call, tp, ct, th, contacts, ind, fill, sim, runs>>

\* -------------------------------------------------------- contact_tracing

\* A Person as contact_tracing sees it: some were diagnosed by earlier
\* testing, some were notified of a contact by earlier tracing.
TracePersons ==
    [symptomatic : {FALSE}, infectious : BOOLEAN, known_contact : {FALSE},
     diagnosed : {FALSE}, date_diagnosed : {<<>>, <<0>>},
     date_known_contact : {<<>>, <<2>>}, dyn_cont_ppl : {NoContacts}]

\* What an apply call of contact_tracing has invoked: the calls of
\* trace_dynamic_contacts and trace_static_contacts, in call order; for each
\* agent whose static contacts were traced, the mapping returned, the
\* agent's dyn_cont_ppl and the merged mapping; the updates of
\* date_known_contact made, in order.
NoTraceLog == [calls |-> <<>>, traced |-> <<>>, updates |-> <<>>]

\* The notification delays of the household and the community layer: the
\* household is notified at once and the community late, or the reverse.
TraceTimes == {[h |-> 0, c |-> 2], [h |-> 2, c |-> 0]}
LayerProbs == [h |-> One, c |-> One]

NoContactTracing ==
    [made |-> FALSE, trace_probs |-> LayerProbs, trace_time |-> [h |-> 0, c |-> 0],
     start_day |-> 0, contact_reduction |-> <<>>]

\* contact_tracing.__init__
contact_tracing_init ==
    /\ err = "none" /\ call.kind = "none"
    /\ \E trace_time \in TraceTimes, start_day \in StartDays :
        /\ ct' = [made |-> TRUE, trace_probs |-> LayerProbs,
                  trace_time |-> trace_time,
                  start_day |-> start_day, contact_reduction |-> <<>>]
        /\ call' = [kind |-> "contact_tracing", a |-> <<trace_time>>, b |-> <<start_day>>]
    /\ UNCHANGED <<t, applied, err, pars, cb, dp, sq, tn, people, results, log, tp, th, contacts, ind, fill, sim, runs>>

\* Person.trace_dynamic_contacts(trace_probs, trace_time): the person
\* afterwards, sample being the community contacts drawn
trace_dynamic_contacts(p, sample, c) ==
    [p EXCEPT !.dyn_cont_ppl =
        ContactsUpdate(@, [j \in Agents |-> IF j \in sample THEN <<c.trace_time.c>> ELSE <<>>])]

\* Person.trace_static_contacts(trace_probs, trace_time): the mapping
\* returned, sample being the static contacts drawn
trace_static_contacts(sample, c) ==
    [j \in Agents |-> IF j \in sample THEN <<c.trace_time.h>> ELSE <<>>]

\* contact_tracing.apply: "if not person.infectious: continue"
SkipsNobody(p) == FALSE
Skips(p) == ~p.infectious

\* contact_tracing.apply: "person.date_diagnosed is not None and
\* person.date_diagnosed == t-1"
JustDiagnosedToday(p, day) == p.date_diagnosed # <<>> /\ p.date_diagnosed[1] = day
JustDiagnosed(p, day) == p.date_diagnosed # <<>> /\ p.date_diagnosed[1] = day - 1

\* contact_tracing.apply: the new date_known_contact of a contacted person
NotifyLatest(old, c) == <<c>>
Notify(old, c) ==
    IF old = <<>> THEN <<c>>
    ELSE <<IF old[1] <= c THEN old[1] ELSE c>>

\* contact_tracing.apply: "contactable_ppl.update(person.dyn_cont_ppl)"
MergeContactable(static, dyn_cont_ppl) == ContactsUpdate(static, dyn_cont_ppl)

\* contact_tracing.apply: the loop over the people who get contacted
Contacted(ppl, contactable, day) ==
    [j \in Agents |->
        IF j \in Keys(contactable)
        THEN [ppl[j] EXCEPT !.date_known_contact = Notify(@, day + contactable[j][1])]
        ELSE ppl[j]]

\* The updates that loop makes, by ascending index of the contacted person.
Updates(ppl, contactable, day) ==
    LET targets == SelectSeq([j \in Agents |-> j], LAMBDA j : j \in Keys(contactable))
    IN  [k \in 1 .. Len(targets) |->
            [target |-> targets[k],
             candidate |-> day + contactable[targets[k]][1],
             old |-> ppl[targets[k]].date_known_contact,
             new |-> Notify(ppl[targets[k]].date_known_contact,
                            day + contactable[targets[k]][1])]]

\* The samples the two traces of person i can draw: of the community
\* contacts of the day, none or all the other agents; of the static
\* contacts, any of the other agents.
DynSamples(i) == {{}, Agents \ {i}}
StaticSamples(i) == SUBSET (Agents \ {i})

\* contact_tracing.apply: the loop over sim.people from the i-th person on:
\* the outcomes it can have, one for each sample the traces of the people
\* can draw among the other agents
RECURSIVE TraceLoop(_, _)
TraceLoop(st, i) ==
    IF i > NAgents THEN {st}
    ELSE IF Skips(st.people[i]) THEN TraceLoop(st, i + 1)
    ELSE UNION {
        LET person == trace_dynamic_contacts(st.people[i], dyn, ct)
            ppl == [j \in Agents |-> IF j = i THEN person ELSE st.people[j]]
        IN  IF JustDiagnosed(person, t)
            THEN UNION {
                LET static == trace_static_contacts(stat, ct)
                    contactable == MergeContactable(static, person.dyn_cont_ppl)
                IN  TraceLoop([people |-> Contacted(ppl, contactable, t),
                               calls |-> st.calls \o <<<<"trace_dynamic_contacts", i>>,
                                                       <<"trace_static_contacts", i>>>>,
                               traced |-> Append(st.traced,
                                                 [agent |-> i, static |-> static,
                                                  dynamic |-> person.dyn_cont_ppl,
                                                  merged |-> contactable]),
                               updates |-> st.updates \o Updates(ppl, contactable, t)],
                              i + 1)
                : stat \in StaticSamples(i)}
            ELSE TraceLoop([people |-> ppl,
                            calls |-> Append(st.calls, <<"trace_dynamic_contacts", i>>),
                            traced |-> st.traced,
                            updates |-> st.updates], i + 1)
        : dyn \in DynSamples(i)}

\* contact_tracing.apply
contact_tracing_apply ==
    /\ err = "none" /\ ct.made /\ ~applied
    /\ applied' = TRUE
    /\ IF BeforeStart(ct, t)
       THEN /\ log' = NoTraceLog
            /\ UNCHANGED people
       ELSE \E done \in TraceLoop([people |-> people, calls |-> <<>>,
                                   traced |-> <<>>, updates |-> <<>>], 1) :
               /\ people' = done.people
               /\ log' = [calls |-> done.calls, traced |-> done.traced,
                          updates |-> done.updates]
    /\ UNCHANGED <<t, err, pars, cb, dp, sq, tn, results, call, tp, ct, th, contacts, ind, fill, sim, runs>>

\* -------------------------------------------------------- test_historical

\* A Person as test_historical sees it, before any testing.
HistPersons ==
    [symptomatic : {FALSE}, infectious : BOOLEAN, known_contact : {FALSE},
     diagnosed : {FALSE}, date_diagnosed : {<<>>}, date_known_contact : {<<>>},
     dyn_cont_ppl : {NoContacts}]

\* What an apply call of test_historical has invoked: whether the pools were
\* drawn, the two pools, and the calls of test, in call order.
NoHistLog == [drew |-> FALSE, positive_inds |-> {}, negative_inds |-> {}, calls |-> <<>>]

\* The daily counts a test_historical is constructed with.
CountVals == {0, 1, 2}

NoTestHistorical == [made |-> FALSE, n_tests |-> <<>>, n_positive |-> <<>>]

\* sc.promotetoarray(x): a scalar becomes an array of one element, a list an
\* array of the same elements; nothing is appended
promotetoarray(x) == IF x.scalar THEN <<x.n>> ELSE x.l

\* The n_tests and n_positive arguments: a scalar (n) or a list (l).
CountArgs ==
    {[scalar |-> TRUE, n |-> n, l |-> <<>>] : n \in CountVals}
        \cup {[scalar |-> FALSE, n |-> 0, l |-> l] : l \in SeqsUpTo(CountVals, MaxSched)}

\* test_historical.__init__
test_historical_init ==
    /\ err = "none" /\ call.kind = "none"
    /\ \E n_tests \in CountArgs, n_positive \in CountArgs :
        /\ th' = [made |-> TRUE, n_tests |-> promotetoarray(n_tests),
                  n_positive |-> promotetoarray(n_positive)]
        /\ call' = [kind |-> "test_historical", a |-> <<n_tests>>, b |-> <<n_positive>>]
    /\ UNCHANGED <<t, applied, err, pars, cb, dp, sq, tn, people, results, log, tp, ct, contacts, ind, fill, sim, runs>>

\* The indices of a set of agents, ascending.
Ascending(S) == SelectSeq([j \in Agents |-> j], LAMBDA j : j \in S)

\* min(a, b) of two integers
Min(a, b) == IF a <= b THEN a ELSE b

\* test_historical.apply: the tests of the people of both pools, the
\* positive pool first
HistTested(ppl, positive_inds, negative_inds, day) ==
    [i \in Agents |->
        IF i \in positive_inds \cup negative_inds
        THEN test(ppl[i], day, TRUE, 0)
        ELSE ppl[i]]

\* test_historical.apply: what the call does to the simulation
test_historical_body ==
    IF t >= Len(th.n_tests)
    THEN /\ err' = "IndexError"
         /\ log' = NoHistLog
         /\ UNCHANGED <<people, results>>
    ELSE IF th.n_tests[t + 1] = 0
    THEN /\ err' = err
         /\ log' = NoHistLog
         /\ UNCHANGED <<people, results>>
    ELSE IF t >= Len(th.n_positive)
    THEN /\ err' = "IndexError"
         /\ log' = NoHistLog
         /\ UNCHANGED <<people, results>>
    ELSE LET positive_tests == [i \in Agents |-> IF people[i].infectious THEN One ELSE Zero]
             negative_tests == [i \in Agents |-> IF people[i].infectious THEN Zero ELSE One]
             n_inf == Cardinality({i \in Agents : people[i].infectious})
         IN  \E positive_inds \in
                    choose_weighted(positive_tests,
                                    Fin(Min(n_inf, th.n_positive[t + 1]), 1)) :
             \E negative_inds \in
                    choose_weighted(negative_tests,
                                    Fin(Min(NAgents - n_inf,
                                            th.n_tests[t + 1] - Cardinality(positive_inds)), 1)) :
                /\ people' = HistTested(people, positive_inds, negative_inds, t)
                /\ results' = [results EXCEPT
                                  !.new_diagnoses[t] = @ + Cardinality(positive_inds),
                                  !.new_tests[t] = FAdd(@, Fin(th.n_tests[t + 1], 1))]
                /\ log' = [drew |-> TRUE, positive_inds |-> positive_inds,
                           negative_inds |-> negative_inds,
                           calls |-> [k \in 1 .. Cardinality(positive_inds) |->
                                         <<"test", Ascending(positive_inds)[k]>>]
                                     \o [k \in 1 .. Cardinality(negative_inds) |->
                                         <<"test", Ascending(negative_inds)[k]>>]]
                /\ err' = err

\* test_historical.apply
test_historical_apply ==
    /\ th.made /\ err = "none" /\ ~applied
    /\ applied' = TRUE
    /\ test_historical_body
    /\ UNCHANGED <<t, pars, cb, dp, sq, tn, call, tp, ct, th, contacts, ind, fill, sim, runs>>

\* ---------------------------------------------------------- sequence.apply

\* np.argmax(self._cum_days > sim.t): the first index (from 0) whose
\* cumulative duration exceeds the day, 0 when none does
argmaxLast(cum_days, day) ==
    IF \E k \in DOMAIN cum_days : cum_days[k] > day
    THEN (CHOOSE k \in DOMAIN cum_days :
            /\ cum_days[k] > day
            /\ \A j \in DOMAIN cum_days : cum_days[j] > day => j <= k) - 1
    ELSE 0
argmax(cum_days, day) ==
    IF \E k \in DOMAIN cum_days : cum_days[k] > day
    THEN (CHOOSE k \in DOMAIN cum_days :
            /\ cum_days[k] > day
            /\ \A j \in DOMAIN cum_days : cum_days[j] > day => k <= j) - 1
    ELSE 0

\* sequence.apply: the child's apply is the whole of the call; np.argmax
\* raises ValueError on an empty array
sequence_apply ==
    /\ sq.made /\ err = "none" /\ ~applied
    /\ applied' = TRUE
    /\ IF Len(sq.cum_days) = 0
       THEN /\ err' = "ValueError"
            /\ UNCHANGED <<people, results, log, ind>>
       ELSE /\ ind' = <<argmax(sq.cum_days, t)>>
            /\ IF sq.interventions[argmax(sq.cum_days, t) + 1] = "test_prob"
               THEN test_prob_body /\ err' = err
               ELSE test_historical_body
    /\ UNCHANGED <<t, pars, cb, dp, sq, tn, call, tp, ct, th, contacts, fill, sim, runs>>

\* -------------------------------------------------------------- population

\* The largest population built.
MaxPop == 4

\* The indices of a population of pop_size people: range(pop_size)
Uids(pop_size) == 0 .. pop_size - 1

\* No population built yet.
NoPopulation ==
    [made |-> FALSE, kind |-> "none", uid |-> <<>>, age |-> <<>>,
     contact_keys |-> <<>>, list |-> <<>>]

\* The layers of sim['contacts'] a clustered population is built with, in
\* the order of the dictionary.
ContactLayers == {<<"a">>, <<"h", "w">>, <<"h", "c">>}

\* The bounds of the ages of school and of work: a lower bound and an
\* upper bound, the defaults of make_realistic_contacts
school_ages == <<6, 18>>
work_ages == <<18, 65>>

\* The ages of a population: the first person at the lower bound of school
\* and the second at the lower bound of work, or the first two in school; the
\* others in neither.
AgeProfiles(pop_size) ==
    {[u \in Uids(pop_size) |->
         IF u = 0 THEN school_ages[1]
         ELSE IF u = 1 THEN work_ages[1] ELSE work_ages[2]],
     [u \in Uids(pop_size) |->
         IF u <= 1 THEN school_ages[2] - 1 ELSE school_ages[1] - 1]}

\* cvu.choose(max_n, n) for any number n drawn by cvu.pt: the indices
\* chosen among range(max_n), duplicates and order left out
choose(max_n) == SUBSET Uids(max_n)

\* make_random_contacts for one layer: the lists it can return, one per
\* person, each chosen among the whole population
make_random_contacts(pop_size) == [Uids(pop_size) -> choose(pop_size)]

\* The sizes a cluster can have once clipped to the people remaining; a draw
\* of 0 leaves the loop where it was.
ClusterSizes(n_remaining) == 1 .. n_remaining

\* The entries added to contacts_dict for two people i < j of a cluster, as
\* pairs of a key and the member added to its set
PairAddsOneWay(i, j) == {<<i, j>>}
PairAdds(i, j) == {<<i, j>>, <<j, i>>}

\* The pairwise contacts of one cluster, added to contacts_dict: a set per
\* person, empty where the defaultdict has no key
AddCluster(contacts_dict, cluster_indices) ==
    LET adds == UNION {IF j <= i THEN {} ELSE PairAdds(i, j)
                       : i \in cluster_indices, j \in cluster_indices}
    IN  [k \in DOMAIN contacts_dict |->
            contacts_dict[k] \cup {a[2] : a \in {b \in adds : b[1] = k}}]

\* make_microstructured_contacts: the while loop of one layer from
\* n_remaining people on: the values of contacts_dict it can end with
RECURSIVE ClusterLoop(_, _, _)
ClusterLoop(contacts_dict, n_remaining, pop_size) ==
    IF ~(n_remaining > 0) THEN {contacts_dict}
    ELSE UNION {
             LET cluster_indices ==
                     {(pop_size - n_remaining) + k : k \in 0 .. this_cluster - 1}
             IN  ClusterLoop(AddCluster(contacts_dict, cluster_indices),
                             n_remaining - this_cluster, pop_size)
             : this_cluster \in ClusterSizes(n_remaining)}

\* make_microstructured_contacts: the contacts_list and contact_keys it can
\* return; the community layer is removed and the layers are clustered
\* independently
make_microstructured_contacts(pop_size, layers) ==
    LET contact_keys == SelectSeq(layers, LAMBDA key : key # "c")
        keys == {contact_keys[x] : x \in DOMAIN contact_keys}
    IN  {[contact_keys |-> contact_keys,
          contacts_list |-> [p \in Uids(pop_size) |->
                                [layer_name \in keys |-> contacts_dict[layer_name][p]]]]
         : contacts_dict \in [keys -> ClusterLoop([p \in Uids(pop_size) |-> {}],
                                                  pop_size, pop_size)]}

\* sc.findinds((ages >= lo) * (ages < hi)): the indices of the people of an
\* age band, ascending
findinds_ages(ages, band) ==
    SelectSeq([k \in 1 .. Cardinality(DOMAIN ages) |-> k - 1],
              LAMBDA u : ages[u] >= band[1] /\ ages[u] < band[2])

\* The list copied over to person p from those made for the people of inds,
\* the i-th list to the i-th of them; [] for a person outside inds
CopyOverAnyone(inds, made_contacts, p) ==
    IF inds # <<>> THEN made_contacts[0] ELSE {}
CopyOver(inds, made_contacts, p) ==
    IF \E i \in DOMAIN inds : inds[i] = p
    THEN made_contacts[(CHOOSE i \in DOMAIN inds : inds[i] = p) - 1]
    ELSE {}

\* make_realistic_contacts: the contacts_list and contact_keys it can return
make_realistic_contacts(pop_size, ages) ==
    LET s_inds == findinds_ages(ages, school_ages)
        w_inds == findinds_ages(ages, work_ages)
    IN  {[contact_keys |-> <<"h", "s", "w">>,
          contacts_list |-> [p \in Uids(pop_size) |->
                                [h |-> h_contacts.contacts_list[p].h,
                                 s |-> CopyOver(s_inds, s_contacts, p),
                                 w |-> CopyOver(w_inds, w_contacts, p)]]]
         : h_contacts \in make_microstructured_contacts(pop_size, <<"h">>),
           s_contacts \in make_random_contacts(Len(s_inds)),
           w_contacts \in make_random_contacts(Len(w_inds))}

\* make_randpop: uids = np.arange(pop_size)
arange(pop_size) == [p \in Uids(pop_size) |-> p]

\* make_randpop: the population dictionary stored, from what the contacts
\* function returned
popdict(kind, uids, ages, built) ==
    [made |-> TRUE, kind |-> kind, uid |-> uids, age |-> ages,
     contact_keys |-> built.contact_keys, list |-> built.contacts_list]

\* make_randpop with microstructure = 'clustered'
make_randpop_clustered ==
    /\ ~contacts.made /\ err = "none"
    /\ \E pop_size \in 1 .. MaxPop, layers \in ContactLayers :
        \E ages \in AgeProfiles(pop_size) :
            \E built \in make_microstructured_contacts(pop_size, layers) :
                contacts' = popdict("clustered", arange(pop_size), ages, built)
    /\ UNCHANGED <<t, applied, err, pars, cb, dp, sq, tn, people, results, log, call, tp, ct, th, ind, fill, sim, runs>>

\* make_randpop with microstructure = 'realistic'
make_randpop_realistic ==
    /\ ~contacts.made /\ err = "none"
    /\ \E pop_size \in 1 .. MaxPop :
        \E ages \in AgeProfiles(pop_size) :
            \E built \in make_realistic_contacts(pop_size, ages) :
                contacts' = popdict("realistic", arange(pop_size), ages, built)
    /\ UNCHANGED <<t, applied, err, pars, cb, dp, sq, tn, people, results, log, call, tp, ct, th, ind, fill, sim, runs>>

\* The layers of sim['contacts'] a random population is built with: all
\* contacts in one layer, or households and community.
RandomLayers == {<<"a">>, <<"h", "c">>}

\* make_random_contacts: the contacts_list and contact_keys it can return;
\* the community layer is removed and every person gets a list per layer
random_contacts(pop_size, layers) ==
    LET contact_keys == SelectSeq(layers, LAMBDA key : key # "c")
        keys == {contact_keys[x] : x \in DOMAIN contact_keys}
    IN  {[contact_keys |-> contact_keys, contacts_list |-> contacts_list]
         : contacts_list \in [Uids(pop_size) -> [keys -> choose(pop_size)]]}

\* make_randpop with microstructure = 'random'
make_randpop_random ==
    /\ ~contacts.made /\ err = "none"
    /\ \E pop_size \in 1 .. NAgents, layers \in RandomLayers :
        \E ages \in AgeProfiles(pop_size) :
            \E built \in random_contacts(pop_size, layers) :
                contacts' = popdict("random", arange(pop_size), ages, built)
    /\ UNCHANGED <<t, applied, err, pars, cb, dp, sq, tn, people, results, log, call, tp, ct, th, ind, fill, sim, runs>>

\* ------------------------------------------------------------ make_synthpop

\* The largest population imported.
MaxExt == 2

\* The uids of an imported population, in the order of its dictionary.
ExtUids == <<"p7", "p3", "p5", "p1">>

\* The layers an imported person has contacts in, in the order of the
\* person's dictionary: the four layers, three of them, or a layer that
\* key_mapping does not know.
ExtKeys == {<<"H", "S", "W", "C">>, <<"H", "S", "W">>, <<"H", "R">>}

\* The contacts an imported person can have in a layer: any list of at most
\* two uids of the population at home, nobody or the last person at school,
\* nobody elsewhere.
ExtLists(key, n) ==
    IF key = "H" THEN SeqsUpTo({ExtUids[x] : x \in 1 .. n}, 2)
    ELSE IF key = "S" THEN {<<>>, <<ExtUids[n]>>}
    ELSE {<<>>}

\* The contacts of an imported person: an ordered dictionary of lists of
\* uids, one per layer.
ExtContacts(keys, n) ==
    {[k \in DOMAIN keys |->
         [key |-> keys[k],
          uids |-> IF keys[k] = "H" THEN home
                   ELSE IF keys[k] = "S" THEN school ELSE <<>>]]
     : home \in ExtLists("H", n), school \in ExtLists("S", n)}

\* The age of every imported person.
ExtAge == 30

\* sp.make_population(n): the populations of n people the import reads, each
\* person an entry of an ordered dictionary
ExtPopulations(n) ==
    UNION {
        {[x \in 1 .. n |->
             [uid |-> ExtUids[x], age |-> ExtAge, contacts |-> uid_contacts[x]]]
         : uid_contacts \in [1 .. n -> ExtContacts(keys, n)]}
        : keys \in ExtKeys}

\* make_synthpop: key_mapping
key_mapping == [H |-> "h", S |-> "s", W |-> "w", C |-> "c"]

\* make_synthpop: uid_mapping = {uid:u for u,uid in enumerate(uids)}, as
\* the position of a uid among the uids read
uid_mappingFromOne(uids, uid) == CHOOSE u \in DOMAIN uids : uids[u] = uid
uid_mapping(uids, uid) == (CHOOSE u \in DOMAIN uids : uids[u] = uid) - 1

\* make_synthpop: the int_contacts of one person: for every key of the
\* person's contacts, in order, the list of the integers its uids map to
int_contacts(uids, uid_contacts) ==
    [new_key \in {key_mapping[uid_contacts[k].key] : k \in DOMAIN uid_contacts} |->
        LET k == CHOOSE k \in DOMAIN uid_contacts :
                     key_mapping[uid_contacts[k].key] = new_key
        IN  [x \in DOMAIN uid_contacts[k].uids |->
                uid_mapping(uids, uid_contacts[k].uids[x])]]

\* make_synthpop: whether key_mapping[key] raises KeyError for a key of
\* some person
UnmappedKey(population) ==
    \E x \in DOMAIN population : \E k \in DOMAIN population[x].contacts :
        population[x].contacts[k].key \notin DOMAIN key_mapping

\* make_synthpop: popdict['uid'], the uids appended while reading the
\* population
ImportedUids(uids) == [p \in Uids(Len(uids)) |-> uids[p + 1]]

\* make_synthpop: the population dictionary returned for a population all of
\* whose layers key_mapping knows
make_synthpop(population) ==
    LET uids == [x \in DOMAIN population |-> population[x].uid]
    IN  [made |-> TRUE, kind |-> "synthpops",
         uid |-> ImportedUids(uids),
         age |-> [p \in Uids(Len(uids)) |-> population[p + 1].age],
         contact_keys |-> <<"h", "s", "w", "c">>,
         list |-> [p \in Uids(Len(uids)) |->
                      int_contacts(uids, population[p + 1].contacts)]]

\* make_synthpop is called; call keeps the population read
make_synthpop_call ==
    /\ ~contacts.made /\ err = "none"
    /\ \E n \in 1 .. MaxExt : \E population \in ExtPopulations(n) :
        /\ call' = [kind |-> "make_synthpop", a |-> population, b |-> <<>>]
        /\ IF UnmappedKey(population)
           THEN err' = "KeyError" /\ UNCHANGED contacts
           ELSE contacts' = make_synthpop(population) /\ UNCHANGED err
    /\ UNCHANGED <<t, applied, pars, cb, dp, sq, tn, people, results, log, tp, ct, th, ind, fill, sim, runs>>

\* ------------------------------- make_microstructured_contacts, step by step

\* The contacts argument of make_microstructured_contacts: the layers in the
\* order of the dictionary, each with its cluster size; a cluster size of 0
\* is accepted as any other.
FillContacts ==
    {<<[key |-> "a", size |-> 20]>>,
     <<[key |-> "h", size |-> 4], [key |-> "c", size |-> 20]>>,
     <<[key |-> "h", size |-> 4], [key |-> "w", size |-> 10]>>,
     <<[key |-> "h", size |-> 0]>>}

\* cvu.pt(rate): a Poisson draw, 0 when the rate is 0 and any number of
\* people otherwise; the draws above pop_size + 1 are clipped as it is
pt(rate, pop_size) == IF rate = 0 THEN {0} ELSE 0 .. pop_size + 1

\* The size of a cluster: the draw, clipped to the people remaining
ClipNever(this_cluster, n_remaining) == this_cluster
Clip(this_cluster, n_remaining) ==
    IF this_cluster > n_remaining THEN n_remaining ELSE this_cluster

\* The indices of the people of a cluster of this_cluster people
ClusterIndices(pop_size, n_remaining, this_cluster) ==
    {(pop_size - n_remaining) + k : k \in 0 .. this_cluster - 1}

\* make_microstructured_contacts is called: the preprocessing, the community
\* layer removed and contacts_list pre-populated
micro_call ==
    /\ fill.pc = "idle"
    /\ \E pop_size \in 0 .. MaxPop, cfg \in FillContacts :
        LET kept == SelectSeq(cfg, LAMBDA c : c.key # "c")
            contact_keys == [x \in DOMAIN kept |-> kept[x].key]
        IN  fill' = [NoFill EXCEPT
                       !.pc = "for",
                       !.pop_size = pop_size,
                       !.contacts = kept,
                       !.contact_keys = contact_keys,
                       !.todo = kept,
                       !.contacts_list =
                           [p \in Uids(pop_size) |->
                               [c \in {contact_keys[x] : x \in DOMAIN contact_keys} |-> {}]]]
    /\ UNCHANGED <<t, applied, err, pars, cb, dp, sq, tn, people, results, log, call, tp, ct, th, contacts, ind, sim, runs>>

\* The head of the loop over the layers: the next layer starts with everybody
\* remaining, and misses no layer; after the last one the function returns
micro_for ==
    /\ fill.pc = "for"
    /\ IF fill.todo = <<>>
       THEN fill' = [fill EXCEPT !.pc = "returned"]
       ELSE fill' = [fill EXCEPT
                       !.pc = "while",
                       !.layer_name = Head(fill.todo).key,
                       !.cluster_size = Head(fill.todo).size,
                       !.todo = Tail(fill.todo),
                       !.n_remaining = fill.pop_size,
                       !.contacts_dict = [p \in Uids(fill.pop_size) |-> {}]]
    /\ UNCHANGED <<t, applied, err, pars, cb, dp, sq, tn, people, results, log, call, tp, ct, th, contacts, ind, sim, runs>>

\* One iteration of the while loop: a cluster size is drawn and clipped, and
\* the pairwise contacts of the cluster are added; rng is the parity of the
\* number of draws made, and clusters keeps the clusters that have members
micro_cluster ==
    /\ fill.pc = "while"
    /\ fill.n_remaining > 0
    /\ \E drawn \in pt(fill.cluster_size, fill.pop_size) :
        LET this_cluster == Clip(drawn, fill.n_remaining)
            cluster_indices ==
                ClusterIndices(fill.pop_size, fill.n_remaining, this_cluster)
        IN  fill' = [fill EXCEPT
                       !.contacts_dict = AddCluster(@, cluster_indices),
                       !.n_remaining = @ - this_cluster,
                       !.rng = 1 - @,
                       !.clusters =
                           IF this_cluster = 0 THEN @
                           ELSE Append(@, [layer_name |-> fill.layer_name,
                                           drawn |-> drawn,
                                           n_remaining |-> fill.n_remaining,
                                           cluster_indices |-> cluster_indices])]
    /\ UNCHANGED <<t, applied, err, pars, cb, dp, sq, tn, people, results, log, call, tp, ct, th, contacts, ind, sim, runs>>

\* The end of the while loop: the sets of contacts_dict are stored in
\* contacts_list under the layer's name, for the people that have a set
micro_store ==
    /\ fill.pc = "while"
    /\ ~(fill.n_remaining > 0)
    /\ fill' = [fill EXCEPT
                  !.pc = "for",
                  !.contacts_list =
                      [p \in Uids(fill.pop_size) |->
                          IF fill.contacts_dict[p] # {}
                          THEN [@[p] EXCEPT ![fill.layer_name] = fill.contacts_dict[p]]
                          ELSE @[p]]]
    /\ UNCHANGED <<t, applied, err, pars, cb, dp, sq, tn, people, results, log, call, tp, ct, th, contacts, ind, sim, runs>>

\* -------------------------------------------------------------- make_people

\* sim['pop_size'] of the simulation make_people is called on.
PeopleSize == 2

\* A simulation before make_people: no population dictionary is stored;
\* raised is the exception of the last call of make_people, and built the
\* constructor it ran, "none" when it ran none.
NoSim ==
    [popdict |-> NoPopulation, people |-> <<>>, contact_keys |-> <<>>,
     use_layers |-> FALSE, raised |-> "none", built |-> "none"]

\* The values of sim['pop_type']: the four population types and one that
\* is none of them.
PopTypes == {"random", "clustered", "realistic", "synthpops", "hybrid"}

\* make_people: whether the requested population cannot be made because
\* synthpops is not available
Unavailable(pop_type, available) == pop_type = "synthpops" /\ ~available

\* make_people: the population type after the check of availability
Fallback(pop_type, available) ==
    IF Unavailable(pop_type, available) THEN "random" ELSE pop_type

\* make_people: whether the stored population dictionary is used
UseStoredNever(stored, reset) == FALSE
UseStored(stored, reset) == stored.made /\ ~reset

\* The populations sp.make_population(n) gives make_people: people with at
\* most one contact at home and none at school.
PeopleImports(n) ==
    {population \in ExtPopulations(n) :
        \A x \in DOMAIN population : \A k \in DOMAIN population[x].contacts :
            /\ Len(population[x].contacts[k].uids) <= 1
            /\ population[x].contacts[k].key = "S"
                   => population[x].contacts[k].uids = <<>>}

\* The ages make_randpop draws for the people of make_people: the first
\* person at the lower bound of school.
PeopleAges(pop_size) ==
    {ages \in AgeProfiles(pop_size) : ages[0] = school_ages[1]}

\* make_randpop(sim, microstructure): the population dictionaries it can
\* return; sim['contacts'] is one layer for the random model and
\* households and community for the clustered one
make_randpop(pop_size, microstructure) ==
    UNION {
        IF microstructure = "random"
        THEN {popdict("random", arange(pop_size), ages, built)
              : built \in random_contacts(pop_size, <<"a">>)}
        ELSE IF microstructure = "clustered"
        THEN {popdict("clustered", arange(pop_size), ages, built)
              : built \in make_microstructured_contacts(pop_size, <<"h", "c">>)}
        ELSE {popdict("realistic", arange(pop_size), ages, built)
              : built \in make_realistic_contacts(pop_size, ages)}
        : ages \in PeopleAges(pop_size)}

\* make_people: the people created from a population dictionary, a Person
\* per index of range(pop_size) with the uid and the contacts stored there
People(pop_size, stored) ==
    [p \in Uids(pop_size) |-> [uid |-> stored.uid[p], contacts |-> stored.list[p]]]

\* make_people: the end of the call, from the population dictionary on:
\* the people are created and stored with the dictionary and its layer keys
StorePeople(use_layers, stored, built) ==
    [popdict |-> stored,
     people |-> People(PeopleSize, stored),
     contact_keys |-> stored.contact_keys,
     use_layers |-> use_layers,
     raised |-> "none",
     built |-> built]

\* make_people(sim, die, reset); call keeps the arguments, the population
\* type and whether synthpops is available
make_people ==
    /\ err = "none"
    /\ \E requested \in PopTypes, die \in BOOLEAN, reset \in BOOLEAN,
          available \in BOOLEAN :
        LET pop_type == Fallback(requested, available)
            use_layers == IF pop_type \in {"realistic", "synthpops"}
                          THEN TRUE ELSE sim.use_layers
        IN  /\ call' = [kind |-> "make_people",
                        a |-> [pop_type |-> requested, die |-> die, reset |-> reset],
                        b |-> <<available>>]
            /\ IF Unavailable(requested, available) /\ die
               THEN sim' = [sim EXCEPT !.raised = "ValueError", !.built = "none"]
               ELSE IF UseStored(sim.popdict, reset)
               THEN sim' = StorePeople(use_layers, sim.popdict, "none")
               ELSE IF pop_type \in {"random", "clustered", "realistic"}
               THEN \E made \in make_randpop(PeopleSize, pop_type) :
                        sim' = StorePeople(use_layers, made, pop_type)
               ELSE IF pop_type = "synthpops"
               THEN \E population \in PeopleImports(PeopleSize) :
                        IF UnmappedKey(population)
                        THEN sim' = [sim EXCEPT !.use_layers = use_layers,
                                                !.raised = "KeyError",
                                                !.built = "synthpops"]
                        ELSE sim' = StorePeople(use_layers,
                                                make_synthpop(population), "synthpops")
               ELSE sim' = [sim EXCEPT !.use_layers = use_layers,
                                       !.raised = "NotImplementedError",
                                       !.built = "none"]
    /\ UNCHANGED <<t, applied, err, pars, cb, dp, sq, tn, people, results, log, tp, ct, th, contacts, ind, fill, runs>>

\* ------------------------------------ graph construction and the random stream

\* The largest number of contacts cvu.pt draws for a person and a layer.
MaxChoose == 2

\* The largest number of draws of 0 among the cluster sizes of a layer.
MaxZeros == 1

\* The cluster size of the layers of the clustered model.
HouseholdSize == 4

\* The draws consumed from the random stream so far, and those of one more
\* call of cvu.pt or cvu.choose
ConsumeElsewhere(draws, new) == draws
Consume(draws, new) == draws \o new

\* make_random_contacts: one person, the first nkeys layers: for each layer
\* cvu.pt draws n_contacts and cvu.choose draws that many indices; chosen
\* holds the indices chosen, layer by layer
RECURSIVE KeyRuns(_, _)
KeyRuns(pop_size, nkeys) ==
    IF nkeys = 0 THEN {[draws |-> <<>>, chosen |-> <<>>]}
    ELSE UNION {
             UNION {
                 {[draws |-> Consume(Consume(prev.draws, <<n_contacts>>), c),
                   chosen |-> Append(prev.chosen, {c[i] : i \in DOMAIN c})]
                  : c \in [1 .. n_contacts -> Uids(pop_size)]}
                 : n_contacts \in 0 .. MaxChoose}
             : prev \in KeyRuns(pop_size, nkeys - 1)}

\* make_random_contacts: the loop over the people, the first n of them done
RECURSIVE PersonRuns(_, _, _)
PersonRuns(pop_size, nkeys, n) ==
    IF n = 0 THEN {[draws |-> <<>>, lists |-> <<>>]}
    ELSE UNION {
             {[draws |-> Consume(prev.draws, one.draws),
               lists |-> Append(prev.lists, one.chosen)]
              : one \in KeyRuns(pop_size, nkeys)}
             : prev \in PersonRuns(pop_size, nkeys, n - 1)}

\* The position of a key in a list of keys
IndexOf(contact_keys, key) ==
    CHOOSE x \in DOMAIN contact_keys : contact_keys[x] = key

\* make_random_contacts: what it can return, with the draws it consumed
random_run(pop_size, layers) ==
    LET contact_keys == SelectSeq(layers, LAMBDA key : key # "c")
        keys == {contact_keys[x] : x \in DOMAIN contact_keys}
    IN  {[draws |-> r.draws,
          contact_keys |-> contact_keys,
          contacts_list |-> [p \in Uids(pop_size) |->
                                [key \in keys |->
                                    r.lists[p + 1][IndexOf(contact_keys, key)]]]]
         : r \in PersonRuns(pop_size, Len(contact_keys), pop_size)}

\* make_microstructured_contacts: the while loop of one layer from
\* n_remaining people on, with the draws consumed: every draw of cvu.pt is
\* one draw of the stream, those of 0 included
RECURSIVE ClusterRuns(_, _, _, _)
ClusterRuns(run, n_remaining, pop_size, zeros) ==
    IF ~(n_remaining > 0) THEN {run}
    ELSE UNION {
             LET this_cluster == Clip(drawn, n_remaining)
                 cluster_indices == ClusterIndices(pop_size, n_remaining, this_cluster)
             IN  ClusterRuns([draws |-> Consume(run.draws, <<drawn>>),
                              contacts_dict |-> AddCluster(run.contacts_dict,
                                                           cluster_indices)],
                             n_remaining - this_cluster, pop_size,
                             IF drawn = 0 THEN zeros - 1 ELSE zeros)
             : drawn \in {d \in pt(HouseholdSize, pop_size) : d > 0 \/ zeros > 0}}

\* make_microstructured_contacts: the loop over the layers, the first
\* nlayers of them done
RECURSIVE LayerRuns(_, _)
LayerRuns(pop_size, nlayers) ==
    IF nlayers = 0 THEN {[draws |-> <<>>, dicts |-> <<>>]}
    ELSE UNION {
             {[draws |-> one.draws, dicts |-> Append(prev.dicts, one.contacts_dict)]
              : one \in ClusterRuns([draws |-> prev.draws,
                                     contacts_dict |-> [p \in Uids(pop_size) |-> {}]],
                                    pop_size, pop_size, MaxZeros)}
             : prev \in LayerRuns(pop_size, nlayers - 1)}

\* make_microstructured_contacts: what it can return, with the draws it
\* consumed
micro_run(pop_size, layers) ==
    LET contact_keys == SelectSeq(layers, LAMBDA key : key # "c")
        keys == {contact_keys[x] : x \in DOMAIN contact_keys}
    IN  {[draws |-> r.draws,
          contact_keys |-> contact_keys,
          contacts_list |-> [p \in Uids(pop_size) |->
                                [key \in keys |->
                                    r.dicts[IndexOf(contact_keys, key)][p]]]]
         : r \in LayerRuns(pop_size, Len(contact_keys))}

\* make_realistic_contacts: what it can return, with the draws it consumed:
\* those of the households, then those of the schools, then those of work
realistic_run(pop_size, ages) ==
    LET s_inds == findinds_ages(ages, school_ages)
        w_inds == findinds_ages(ages, work_ages)
    IN  UNION {
            {[draws |-> Consume(Consume(h_contacts.draws, s_contacts.draws),
                                w_contacts.draws),
              contact_keys |-> <<"h", "s", "w">>,
              contacts_list |->
                  [p \in Uids(pop_size) |->
                      [h |-> h_contacts.contacts_list[p].h,
                       s |-> CopyOver(s_inds,
                                      [i \in Uids(Len(s_inds)) |->
                                          s_contacts.contacts_list[i].s], p),
                       w |-> CopyOver(w_inds,
                                      [i \in Uids(Len(w_inds)) |->
                                          w_contacts.contacts_list[i].w], p)]]]
             : s_contacts \in random_run(Len(s_inds), <<"s">>),
               w_contacts \in random_run(Len(w_inds), <<"w">>)}
            : h_contacts \in micro_run(pop_size, <<"h">>)}

\* The inputs of the graph constructions that are run twice: the model, the
\* population size, the layers and the ages.
RunInputs ==
    {[kind |-> "random", pop_size |-> PeopleSize, layers |-> layers, ages |-> <<>>]
     : layers \in RandomLayers}
    \cup
    {[kind |-> "clustered", pop_size |-> pop_size, layers |-> layers, ages |-> <<>>]
     : pop_size \in 1 .. MaxPop, layers \in {<<"a">>, <<"h", "c">>}}
    \cup
    {[kind |-> "clustered", pop_size |-> PeopleSize, layers |-> <<"h", "w">>,
      ages |-> <<>>]}
    \cup
    {[kind |-> "realistic", pop_size |-> PeopleSize, layers |-> <<"h", "s", "w">>,
      ages |-> ages]
     : ages \in AgeProfiles(PeopleSize)}

\* Whether one list of draws starts with the other: both were read from the
\* start of one stream
SameStream(d, e) ==
    \/ Len(d) <= Len(e) /\ SubSeq(e, 1, Len(d)) = d
    \/ Len(e) <= Len(d) /\ SubSeq(d, 1, Len(e)) = e

\* The inputs a graph construction of a model is run on: any of the model's
\* inputs, those of the run before it if there is one
InputsOf(kind) ==
    {input \in RunInputs :
        /\ input.kind = kind
        /\ runs # <<>> => runs[1].input = input}

\* A graph construction has run: it read the random stream the run before
\* it read, if there is one
ran(input, made) ==
    /\ runs # <<>> => SameStream(runs[1].draws, made.draws)
    /\ runs' = Append(runs, [input |-> input,
                             draws |-> made.draws,
                             contact_keys |-> made.contact_keys,
                             contacts_list |-> made.contacts_list])

\* make_random_contacts is run
construct_random ==
    /\ err = "none" /\ Len(runs) < 2
    /\ \E input \in InputsOf("random") :
        \E made \in random_run(input.pop_size, input.layers) : ran(input, made)
    /\ UNCHANGED <<t, applied, err, pars, cb, dp, sq, tn, people, results, log, call, tp, ct, th, contacts, ind, fill, sim>>

\* make_microstructured_contacts is run
construct_clustered ==
    /\ err = "none" /\ Len(runs) < 2
    /\ \E input \in InputsOf("clustered") :
        \E made \in micro_run(input.pop_size, input.layers) : ran(input, made)
    /\ UNCHANGED <<t, applied, err, pars, cb, dp, sq, tn, people, results, log, call, tp, ct, th, contacts, ind, fill, sim>>

\* make_realistic_contacts is run
construct_realistic ==
    /\ err = "none" /\ Len(runs) < 2
    /\ \E input \in InputsOf("realistic") :
        \E made \in realistic_run(input.pop_size, input.ages) : ran(input, made)
    /\ UNCHANGED <<t, applied, err, pars, cb, dp, sq, tn, people, results, log, call, tp, ct, th, contacts, ind, fill, sim>>

\* ------------------------------------------------------------------ init

Init ==
    /\ t = 0
    /\ applied = FALSE
    /\ err = "none"
    /\ pars = make_pars
    /\ cb = NoChangeBeta
    /\ dp = NoDynPars
    /\ sq = NoSequence
    /\ tn = NoTestNum
    /\ people = <<>>
    /\ results = <<>>
    /\ log = NoLog
    /\ call = NoCall
    /\ tp = NoTestProb
    /\ ct = NoContactTracing
    /\ th = NoTestHistorical
    /\ contacts = <<>>
    /\ ind = <<>>
    /\ fill = NoFill
    /\ sim = NoSim
    /\ runs = <<>>

\* A simulation whose only intervention is a change_beta, beside another
\* writer of the same parameters.
BetaNext == change_beta_init \/ change_beta_apply \/ OtherWrite \/ NextDay

SpecBeta == Init /\ [][BetaNext]_vars

\* A simulation whose only intervention is one of the parameter-editing
\* interventions or a sequence, from its construction on.
ConfNext ==
    \/ dynamic_pars_init
    \/ change_beta_init
    \/ sequence_init
    \/ dynamic_pars_apply
    \/ change_beta_apply
    \/ NextDay

SpecConf == Init /\ [][ConfNext]_vars

\* A population at some point of its epidemic, before any testing.
InitTest ==
    /\ t = 0
    /\ applied = FALSE
    /\ err = "none"
    /\ pars = make_pars
    /\ cb = NoChangeBeta
    /\ dp = NoDynPars
    /\ sq = NoSequence
    /\ tn = NoTestNum
    /\ people \in [Agents -> NewPersons]
    /\ results = NewResults
    /\ log = NoLog
    /\ call = NoCall
    /\ tp = NoTestProb
    /\ ct = NoContactTracing
    /\ th = NoTestHistorical
    /\ contacts = <<>>
    /\ ind = <<>>
    /\ fill = NoFill
    /\ sim = NoSim
    /\ runs = <<>>

\* A simulation whose only intervention is a test_num.
TestNext == test_num_init \/ test_num_apply \/ NextDay

SpecTest == InitTest /\ [][TestNext]_vars

\* The state shared by the simulations of the agent interventions.
InitAgents ==
    /\ t = 0
    /\ applied = FALSE
    /\ err = "none"
    /\ pars = make_pars
    /\ cb = NoChangeBeta
    /\ dp = NoDynPars
    /\ tn = NoTestNum
    /\ ct = NoContactTracing
    /\ results = NewResults
    /\ call = NoCall
    /\ contacts = <<>>
    /\ ind = <<>>
    /\ fill = NoFill
    /\ sim = NoSim
    /\ runs = <<>>

\* A population before any testing, for a test_prob.
InitProb ==
    /\ InitAgents
    /\ sq = NoSequence /\ tp = NoTestProb /\ th = NoTestHistorical
    /\ people \in [Agents -> ProbPersons]
    /\ log = NoProbLog

\* A simulation whose only intervention is a test_prob.
ProbNext == test_prob_init \/ test_prob_apply \/ NextDay

SpecProb == InitProb /\ [][ProbNext]_vars

\* A population at some point of its epidemic, for a contact_tracing.
InitTrace ==
    /\ InitAgents
    /\ sq = NoSequence /\ tp = NoTestProb /\ th = NoTestHistorical
    /\ people \in [Agents -> TracePersons]
    /\ log = NoTraceLog

\* A simulation whose only intervention is a contact_tracing.
TraceNext == contact_tracing_init \/ contact_tracing_apply \/ NextDay

SpecTrace == InitTrace /\ [][TraceNext]_vars

\* A population before any testing, for a test_historical.
InitHist ==
    /\ InitAgents
    /\ sq = NoSequence /\ tp = NoTestProb /\ th = NoTestHistorical
    /\ people \in [Agents -> HistPersons]
    /\ log = NoHistLog

\* A simulation whose only intervention is a test_historical.
HistNext == test_historical_init \/ test_historical_apply \/ NextDay

SpecHist == InitHist /\ [][HistNext]_vars

\* A simulation whose only intervention is a test_prob or a contact_tracing,
\* the two interventions that have a start_day; an agent is infectious and
\* symptomatic or neither.
StartPersons ==
    {p \in ProbPersons : p.symptomatic = p.infectious}

InitStart ==
    /\ InitAgents
    /\ sq = NoSequence /\ tp = NoTestProb /\ th = NoTestHistorical
    /\ people \in [Agents -> StartPersons]
    /\ log = NoProbLog

StartNext == ProbNext \/ TraceNext

SpecStart == InitStart /\ [][StartNext]_vars

\* The children of the sequence of the repository's test, built before it:
\* a test_historical with a count for every day and a test_prob.
SeqChildHistorical ==
    [made |-> TRUE, n_tests |-> [d \in 1 .. MaxDay + 1 |-> 2],
     n_positive |-> [d \in 1 .. MaxDay + 1 |-> 1]]
SeqChildProb ==
    [made |-> TRUE, symptomatic_prob |-> Half, asymptomatic_prob |-> Zero,
     test_delay |-> 1, start_day |-> 0]

\* A population before any testing, for a sequence of the two children:
\* agent 1 is infectious and symptomatic, the others are neither.
SeqPeople ==
    [i \in Agents |->
        [symptomatic |-> i = 1, infectious |-> i = 1, known_contact |-> FALSE,
         diagnosed |-> FALSE, date_diagnosed |-> <<>>, date_known_contact |-> <<>>,
         dyn_cont_ppl |-> NoContacts]]

InitSeq ==
    /\ InitAgents
    /\ sq = NoSequence /\ tp = SeqChildProb /\ th = SeqChildHistorical
    /\ people = SeqPeople
    /\ log = NoProbLog

\* A simulation whose only intervention is a sequence.
SeqNext == sequence_init \/ sequence_apply \/ NextDay

SpecSeq == InitSeq /\ [][SeqNext]_vars

\* The state before a population is built.
InitPop ==
    /\ t = 0
    /\ applied = FALSE
    /\ err = "none"
    /\ pars = make_pars
    /\ cb = NoChangeBeta
    /\ dp = NoDynPars
    /\ sq = NoSequence
    /\ tn = NoTestNum
    /\ people = <<>>
    /\ results = <<>>
    /\ log = NoLog
    /\ call = NoCall
    /\ tp = NoTestProb
    /\ ct = NoContactTracing
    /\ th = NoTestHistorical
    /\ contacts = NoPopulation
    /\ ind = <<>>
    /\ fill = NoFill
    /\ sim = NoSim
    /\ runs = <<>>

\* The construction of a population with contacts.
PopNext == make_randpop_clustered \/ make_randpop_realistic

SpecPop == InitPop /\ [][PopNext]_vars

\* The state before make_microstructured_contacts is called.
InitFill ==
    /\ InitPop

\* A call of make_microstructured_contacts, one step of its loops at a time.
FillNext == micro_call \/ micro_for \/ micro_cluster \/ micro_store

SpecFill == InitFill /\ [][FillNext]_vars

\* The interpreter goes on executing the function while it has a next step.
FairFill == SpecFill /\ WF_vars(FillNext)

\* The construction of a population by any of the four models.
BuildNext ==
    \/ make_randpop_random
    \/ make_randpop_clustered
    \/ make_randpop_realistic
    \/ make_synthpop_call

SpecBuild == InitPop /\ [][BuildNext]_vars

\* A simulation on which make_people is called, any number of times.
InitPeople ==
    /\ InitPop

PeopleNext == make_people

SpecPeople == InitPeople /\ [][PeopleNext]_vars

\* Two graph constructions on the same inputs and the same random stream.
InitRuns ==
    /\ InitPop

RunsNext == construct_random \/ construct_clustered \/ construct_realistic

SpecRuns == InitRuns /\ [][RunsNext]_vars

\* ------------------------------------------------------ change_beta: claims

\* The product of the change factors of the schedule entries in inds.
RECURSIVE ProdOver(_, _)
ProdOver(inds, changes) ==
    IF inds = {} THEN One
    ELSE LET i == CHOOSE j \in inds : TRUE
         IN  FMul(changes[i], ProdOver(inds \ {i}, changes))

\* A step that is a call of change_beta.apply.
BetaApplyStep == cb.made /\ ~applied /\ applied'

\* C1: change_beta.apply on a day matching k >= 1 schedule entries sets the
\* live beta of every configured layer (the overall beta for None) to the
\* cached baseline times the product of the k matching factors, whatever
\* the live value was just before the call.
C1_CompoundsFromBaseline ==
    [][(BetaApplyStep /\ findinds(cb.days, t) # {}) =>
          \A l \in cb.layers :
              LiveBeta(pars', OrigKey(l)) =
                  FMul(cb'.orig_betas[OrigKey(l)],
                       ProdOver(findinds(cb.days, t), cb.changes))]_vars

\* C1's case: days [0, 1] with changes [0.5, 1] on the overall beta; after
\* the apply of day 1 the live value is the baseline again.
C1_Witness ==
    /\ cb.made /\ applied /\ t = 1
    /\ cb.days = <<0, 1>> /\ cb.changes = <<Half, One>> /\ cb.layers = {"None"}
    /\ cb.orig_betas["overall"] = DefaultBeta
    /\ pars.beta = DefaultBeta

\* C2: the baseline is cached exactly once: unset before the first apply,
\* set by the first apply to the live value of every configured layer as
\* read then, and never changed by a later apply.
C2_CachedOnce ==
    /\ [](cb.made => (cb.cached <=> (applied \/ t > 0)))
    /\ [][(BetaApplyStep /\ ~cb.cached) =>
             /\ cb'.cached
             /\ DOMAIN cb'.orig_betas = {OrigKey(l) : l \in cb.layers}
             /\ \A l \in cb.layers :
                   cb'.orig_betas[OrigKey(l)] = LiveBeta(pars, OrigKey(l))]_vars
    /\ [][cb.cached => (cb'.cached /\ cb'.orig_betas = cb.orig_betas)]_vars

\* C2's case: the last day's apply has run, the live overall beta was
\* written by another intervention before the first apply and has changed
\* since, and the cache still holds the value read by the first apply.
C2_Witness ==
    /\ cb.made /\ cb.cached /\ applied /\ t = MaxDay
    /\ "None" \in cb.layers
    /\ cb.orig_betas["overall"] \in OtherVals
    /\ pars.beta # cb.orig_betas["overall"]

\* ---------------------------------------- constructors and dynamic_pars: claims

\* Some parameter's 'days' list names the same day twice.
HasDuplicateDay(cfg) ==
    \E i \in 1 .. Len(cfg) :
        \E j, k \in 1 .. Len(cfg[i].days) : j < k /\ cfg[i].days[j] = cfg[i].days[k]

\* C3: constructing dynamic_pars with a parameter whose 'days' names the same
\* day twice raises at construction; no dynamic_pars instance holding a
\* duplicate schedule day reaches the day loop.
C3_DuplicateDayRejectedAtInit ==
    (call.kind = "dynamic_pars" /\ HasDuplicateDay(call.a)) =>
        (~dp.made /\ err # "none")

\* A pars argument in which some parameter lacks 'days' or 'vals', or has
\* lists of different lengths.
DynMalformed(cfg) ==
    \E i \in 1 .. Len(cfg) :
        \/ ~cfg[i].has_days
        \/ ~cfg[i].has_vals
        \/ Len(cfg[i].days) # Len(cfg[i].vals)

\* C4: a malformed schedule is rejected by the constructor, which raises and
\* produces no instance, so that no apply call ever meets it: dynamic_pars
\* for a missing 'days' or 'vals' or lists of different lengths, change_beta
\* for days and changes of different lengths, sequence for days and
\* interventions of different lengths.
C4_MalformedRejectedAtInit ==
    /\ (call.kind = "dynamic_pars" /\ DynMalformed(call.a)) =>
          (~dp.made /\ err \in {"KeyError", "ValueError"} /\ ~applied /\ t = 0)
    /\ (call.kind = "change_beta" /\ Len(call.a) # Len(call.b)) =>
          (~cb.made /\ err = "ValueError" /\ ~applied /\ t = 0)
    /\ (call.kind = "sequence" /\ Len(call.a) # Len(call.b)) =>
          (~sq.made /\ err = "AssertionError" /\ ~applied /\ t = 0)
    /\ (dp.made => ~DynMalformed(dp.pars))
    /\ (cb.made => Len(cb.days) = Len(cb.changes))
    /\ (sq.made => Len(sq.days) = Len(sq.interventions))

\* C4's case: dynamic_pars was called with more days than values for its
\* second parameter, and raised.
C4_Witness ==
    /\ call.kind = "dynamic_pars" /\ Len(call.a) = 2
    /\ ~DynMalformed(<<call.a[1]>>)
    /\ call.a[2].has_days /\ call.a[2].has_vals
    /\ Len(call.a[2].days) > Len(call.a[2].vals)
    /\ err = "ValueError" /\ ~dp.made

\* A step that is a call of dynamic_pars.apply.
DynApplyStep == dp.made /\ ~applied /\ applied'

\* The scheduled value of entry e for the day, when exactly one matches.
DynScheduled(e, day) == e.vals[CHOOSE j \in findinds(e.days, day) : TRUE]

\* C5: dynamic_pars.apply on day t: a parameter with exactly one entry for
\* day t keeps, when the scheduled value is a mapping, every key not named
\* in it and takes the scheduled value of every key named; otherwise it is
\* replaced by the scheduled value.  A parameter with no entry for day t is
\* left unchanged.
C5_MergeOrOverwrite ==
    [][DynApplyStep =>
        /\ \A i \in 1 .. Len(dp.pars) :
            LET e == dp.pars[i]
                n == Cardinality(findinds(e.days, t))
                val == DynScheduled(e, t)
            IN  /\ (n = 1 /\ val.dict) =>
                      /\ DOMAIN pars'[e.key] = DOMAIN pars[e.key] \cup DOMAIN val.v
                      /\ \A k \in DOMAIN pars'[e.key] :
                            pars'[e.key][k] =
                                IF k \in DOMAIN val.v THEN val.v[k] ELSE pars[e.key][k]
                /\ (n = 1 /\ ~val.dict) => pars'[e.key] = val.v
                /\ (n = 0) => pars'[e.key] = pars[e.key]
        /\ \A key \in DynKeys :
              (\A i \in 1 .. Len(dp.pars) : dp.pars[i].key # key) =>
                  pars'[key] = pars[key]]_vars

\* C5 on the days on which no parameter of the instance has two entries.
C5_WhenNoDuplicateToday ==
    [][(DynApplyStep /\ \A i \in 1 .. Len(dp.pars) :
                            Cardinality(findinds(dp.pars[i].days, t)) <= 1) =>
        /\ err' = "none"
        /\ \A i \in 1 .. Len(dp.pars) :
            LET e == dp.pars[i]
                n == Cardinality(findinds(e.days, t))
                val == DynScheduled(e, t)
            IN  /\ (n = 1 /\ val.dict) =>
                      /\ DOMAIN pars'[e.key] = DOMAIN pars[e.key] \cup DOMAIN val.v
                      /\ \A k \in DOMAIN pars'[e.key] :
                            pars'[e.key][k] =
                                IF k \in DOMAIN val.v THEN val.v[k] ELSE pars[e.key][k]
                /\ (n = 1 /\ ~val.dict) => pars'[e.key] = val.v
                /\ (n = 0) => pars'[e.key] = pars[e.key]]_vars

\* ---------------------------------------------------------- test_num: claims

\* A step that is a call of test_num.apply.
TestApplyStep == tn.made /\ ~applied /\ applied'

\* C6: test_num.apply never invokes test on an agent whose diagnosed flag is
\* set when the propensities are computed, the flag set by that day's own
\* check_diagnosed call included: check_diagnosed is called on every agent,
\* in population order, before the flags are read.
C6_DiagnosedNeverTested ==
    /\ \A i \in log.tested : ~people[i].diagnosed
    /\ log.drew => log.checked = [i \in Agents |-> i]
    /\ log.tested # {} => log.drew

\* C6's case: agent 1 tested positive on day 0 and was flagged by the
\* check_diagnosed call of day 1; day 1's budget of 2 went to agent 2 alone.
C6_Witness ==
    /\ tn.made /\ applied /\ t = 1
    /\ people[1].diagnosed /\ people[1].date_diagnosed = <<0>>
    /\ log.n = Fin(2, 1) /\ log.tested = {2}

\* The agents with positive propensity in the draw of the apply call made
\* by this step.
EligibleNext == {i \in DOMAIN log'.probs : log'.probs[i].n > 0}

\* Today's budget is positive, finite and at most the number of agents with
\* positive propensity.
SufficientDay ==
    /\ t < Len(tn.daily_tests)
    /\ IsFinite(tn.daily_tests[t + 1])
    /\ tn.daily_tests[t + 1].n > 0
    /\ FLeq(tn.daily_tests[t + 1], Fin(Cardinality(EligibleNext), 1))

\* Every day whose apply has run holds its budget in new_tests, every other
\* day zero: the cumulative new_tests is the sum of the budgets applied.
NewTestsAreBudgets ==
    tn.made =>
        \A d \in Days :
            results.new_tests[d] =
                IF (d < t \/ (d = t /\ applied)) /\ d < Len(tn.daily_tests)
                THEN tn.daily_tests[d + 1] ELSE Zero

\* C7 as claimed: on a day whose budget is positive, finite and at most the
\* number of agents with positive propensity, test_num.apply invokes test on
\* exactly daily_tests[t] distinct agents and adds daily_tests[t] to
\* new_tests[t]; cumulative new_tests is the sum of the budgets.
C7_Conservation ==
    /\ []NewTestsAreBudgets
    /\ [][(TestApplyStep /\ SufficientDay) =>
             /\ Fin(Cardinality(log'.tested), 1) = tn.daily_tests[t + 1]
             /\ results'.new_tests[t] = FAdd(results.new_tests[t], tn.daily_tests[t + 1])]_vars

\* C7 amended: the same on a day whose budget is also a whole number.
C7_ConservationWholeBudget ==
    /\ []NewTestsAreBudgets
    /\ [][(TestApplyStep /\ SufficientDay /\ tn.daily_tests[t + 1].d = 1) =>
             /\ Fin(Cardinality(log'.tested), 1) = tn.daily_tests[t + 1]
             /\ results'.new_tests[t] = FAdd(results.new_tests[t], tn.daily_tests[t + 1])]_vars

\* C7's case: budgets [1, 2]; day 0 tested one agent of two, day 1 both.
C7_Witness ==
    /\ tn.made /\ applied /\ t = 1
    /\ tn.daily_tests = <<One, Fin(2, 1)>>
    /\ log.tested = {1, 2}
    /\ results.new_tests[0] = One /\ results.new_tests[1] = Fin(2, 1)

\* C8: on a day t >= len(daily_tests) test_num.apply invokes neither
\* check_diagnosed nor test, draws no sample, raises nothing, and leaves the
\* results and every agent unchanged.
C8_NoTestingBeyondBudgets ==
    [][(TestApplyStep /\ t >= Len(tn.daily_tests)) =>
          /\ log' = NoLog
          /\ err' = "none"
          /\ results' = results
          /\ people' = people]_vars

\* C8's case: one budget of 2 was spent on day 0; on day 1 apply has run and
\* agent 1, whose diagnosis date has come, was not checked.
C8_Witness ==
    /\ tn.made /\ applied /\ t = 1
    /\ tn.daily_tests = <<Fin(2, 1)>>
    /\ people[1].date_diagnosed = <<0>> /\ ~people[1].diagnosed
    /\ log = NoLog
    /\ results.new_tests[1] = Zero

\* C9: the propensity handed to the sampler is 0 for a diagnosed agent and
\* otherwise 1, times sympt_test when symptomatic, times trace_test when a
\* known contact.
C9_Propensity ==
    log.drew =>
        \A i \in Agents :
            log.probs[i] =
                IF people[i].diagnosed THEN Zero
                ELSE FMul(IF people[i].symptomatic THEN tn.sympt_test ELSE One,
                          IF people[i].known_contact THEN tn.trace_test ELSE One)

\* C9's case: agent 1 is symptomatic and a known contact and gets both
\* boosts; agent 2 is symptomatic, a known contact and diagnosed and gets 0.
C9_Witness ==
    /\ log.drew /\ applied
    /\ people[1].symptomatic /\ people[1].known_contact /\ ~people[1].diagnosed
    /\ log.probs[1] = FMul(tn.sympt_test, tn.trace_test)
    /\ log.probs[1] # tn.sympt_test /\ log.probs[1] # tn.trace_test
    /\ people[2].symptomatic /\ people[2].known_contact /\ people[2].diagnosed
    /\ log.probs[2] = Zero

\* C10: test_num.apply on a day whose budget is zero or non-finite, or on
\* which every agent is diagnosed when the propensities are computed, raises
\* nothing, tests nobody and leaves the agents and the results unchanged.
C10_QuietDaysAreNoOps ==
    [][(/\ TestApplyStep
        /\ t < Len(tn.daily_tests)
        /\ \/ tn.daily_tests[t + 1] = Zero
           \/ ~IsFinite(tn.daily_tests[t + 1])
           \/ \A i \in Agents : check_diagnosed(people[i], t).diagnosed) =>
          /\ err' = "none"
          /\ log'.tested = {}
          /\ people' = people
          /\ results' = results]_vars

\* What does hold on such a day: nothing is raised and nobody is tested.
C10_QuietDaysTestNobody ==
    [][(/\ TestApplyStep
        /\ t < Len(tn.daily_tests)
        /\ \/ tn.daily_tests[t + 1] = Zero
           \/ ~IsFinite(tn.daily_tests[t + 1])
           \/ \A i \in Agents : check_diagnosed(people[i], t).diagnosed) =>
          /\ err' = "none"
          /\ log'.tested = {}]_vars

\* --------------------------------------------- test_prob, start_day: claims

\* A step that is a call of test_prob.apply, of contact_tracing.apply.
ProbApplyStep == tp.made /\ ~applied /\ applied'
TraceApplyStep == ct.made /\ ~applied /\ applied'

\* The elements of a sequence.
Range(s) == {s[k] : k \in DOMAIN s}

\* C11: apply of a test_prob and of a contact_tracing on a day t < start_day
\* invokes no agent operation, draws nothing and leaves agents, parameters
\* and results unchanged; on every day t >= start_day, the start day
\* included, the intervention is active: test_prob checks every agent and
\* draws for it, contact_tracing traces the dynamic contacts of every
\* infectious agent.
C11_StartDay ==
    [][/\ (ProbApplyStep /\ t < tp.start_day) =>
              /\ log' = NoProbLog
              /\ people' = people /\ pars' = pars /\ results' = results
              /\ err' = "none"
       /\ (TraceApplyStep /\ t < ct.start_day) =>
              /\ log' = NoTraceLog
              /\ people' = people /\ pars' = pars /\ results' = results
              /\ err' = "none"
       /\ (ProbApplyStep /\ t >= tp.start_day) =>
              /\ \A i \in Agents : <<"check_diagnosed", i>> \in Range(log'.calls)
              /\ Len(log'.draws) = NAgents
       /\ (TraceApplyStep /\ t >= ct.start_day) =>
              \A i \in Agents :
                  people[i].infectious
                      <=> <<"trace_dynamic_contacts", i>> \in Range(log'.calls)]_vars

\* C11's case: a test_prob with start_day 1 that tests every symptomatic
\* agent did nothing on day 0 and tested symptomatic agent 1 on day 1.
C11_Witness ==
    /\ tp.made /\ applied /\ t = 1 /\ tp.start_day = 1
    /\ tp.symptomatic_prob = One
    /\ people[1].symptomatic
    /\ results.new_tests[0] = Zero
    /\ <<"test", 1>> \in Range(log.calls)

\* The agents test was invoked on by the apply call made by this step.
ProbTestedNext == {i \in Agents : <<"test", i>> \in Range(log'.calls)}

\* C12: on an active day test_prob.apply makes one draw per agent, with
\* symptomatic_prob for a symptomatic agent and asymptomatic_prob otherwise,
\* whatever the agent's diagnosed flag and the other agents' draws; it tests
\* exactly the agents whose draw succeeds, each once, and new_tests[t] grows
\* by the number of agents tested.
C12_BernoulliTesting ==
    [][(ProbApplyStep /\ t >= tp.start_day) =>
          /\ Len(log'.draws) = NAgents
          /\ \A i \in Agents :
                /\ log'.draws[i].agent = i
                /\ log'.draws[i].prob =
                       IF people[i].symptomatic THEN tp.symptomatic_prob
                       ELSE tp.asymptomatic_prob
                /\ log'.draws[i].hit \in bt(log'.draws[i].prob)
                /\ log'.draws[i].hit <=> i \in ProbTestedNext
                /\ Cardinality({k \in DOMAIN log'.calls :
                                   log'.calls[k] = <<"test", i>>}) <= 1
          /\ results'.new_tests[t] =
                 FAdd(results.new_tests[t], Fin(Cardinality(ProbTestedNext), 1))]_vars

\* C12's case: agent 1, symptomatic and already diagnosed, is tested again
\* on day 1 while asymptomatic agent 2's draw fails.
C12_Witness ==
    /\ tp.made /\ applied /\ t = 1
    /\ people[1].symptomatic /\ people[1].diagnosed
    /\ ~people[2].symptomatic
    /\ tp.asymptomatic_prob = Half
    /\ log.draws[1].hit /\ ~log.draws[2].hit
    /\ <<"test", 1>> \in Range(log.calls)
    /\ <<"test", 2>> \notin Range(log.calls)
    /\ results.new_tests[1] = One

\* -------------------------------------------------- test_historical: claims

\* A step that is a call of test_historical.apply.
HistApplyStep == th.made /\ ~applied /\ applied'

\* The count a zero-padded schedule holds for a day.
CountAt(counts, day) == IF day < Len(counts) THEN counts[day + 1] ELSE 0

\* The infectious agents.
Infectious == {i \in Agents : people[i].infectious}

\* C13: on a day t with n_tests[t] > 0 test_historical.apply draws a
\* positive pool of exactly min(number of infectious agents, n_positive[t])
\* agents, all infectious, and a negative pool of exactly min(number of
\* non-infectious agents, n_tests[t] - size of the positive pool) agents,
\* all non-infectious; the pools are disjoint, test is invoked exactly once
\* on every drawn agent, and new_diagnoses[t] grows by the size of the
\* positive pool.
C13_Pools ==
    [][(HistApplyStep /\ CountAt(th.n_tests, t) > 0) =>
          /\ err' = "none"
          /\ log'.drew
          /\ log'.positive_inds \subseteq Infectious
          /\ Cardinality(log'.positive_inds) =
                 Min(Cardinality(Infectious), CountAt(th.n_positive, t))
          /\ log'.negative_inds \subseteq Agents \ Infectious
          /\ Cardinality(log'.negative_inds) =
                 Min(NAgents - Cardinality(Infectious),
                     CountAt(th.n_tests, t) - Cardinality(log'.positive_inds))
          /\ log'.positive_inds \cap log'.negative_inds = {}
          /\ \A i \in Agents :
                Cardinality({k \in DOMAIN log'.calls : log'.calls[k] = <<"test", i>>}) =
                    IF i \in log'.positive_inds \cup log'.negative_inds THEN 1 ELSE 0
          /\ results'.new_diagnoses[t] =
                 results.new_diagnoses[t] + Cardinality(log'.positive_inds)]_vars

\* What does hold of the pools: the same on a day for which both schedules
\* hold a count and the positives do not exceed the tests.
C13_PoolsWithinSchedules ==
    [][(/\ HistApplyStep /\ CountAt(th.n_tests, t) > 0
        /\ t < Len(th.n_positive)
        /\ th.n_positive[t + 1] <= th.n_tests[t + 1]) =>
          /\ err' = "none"
          /\ log'.positive_inds \subseteq Infectious
          /\ Cardinality(log'.positive_inds) =
                 Min(Cardinality(Infectious), CountAt(th.n_positive, t))
          /\ log'.negative_inds \subseteq Agents \ Infectious
          /\ Cardinality(log'.negative_inds) =
                 Min(NAgents - Cardinality(Infectious),
                     CountAt(th.n_tests, t) - Cardinality(log'.positive_inds))
          /\ results'.new_diagnoses[t] =
                 results.new_diagnoses[t] + Cardinality(log'.positive_inds)]_vars

\* C14: a test_historical constructed with a scalar or with an array shorter
\* than the simulation is zero-padded: apply on a day at or beyond the
\* length of n_tests tests nobody and raises nothing, and on a day at or
\* beyond the length of n_positive draws no positive.
C14_ZeroPadded ==
    [][/\ (HistApplyStep /\ t >= Len(th.n_tests)) =>
              /\ err' = "none"
              /\ log' = NoHistLog
              /\ people' = people /\ results' = results
       /\ (HistApplyStep /\ t >= Len(th.n_positive)) =>
              /\ err' = "none"
              /\ log'.positive_inds = {}]_vars

\* -------------------------------------------------- contact_tracing: claims

\* The date an update of the log found: that left by the last earlier update
\* of the same call for the same person, else the person's date before the
\* call.
DateFound(updates, k) ==
    LET prior == {m \in 1 .. (k - 1) : updates[m].target = updates[k].target}
    IN  IF prior = {} THEN people[updates[k].target].date_known_contact
        ELSE updates[CHOOSE m \in prior : \A n \in prior : n <= m].new

\* The date the updates of the log leave a person with.
DateLeft(updates, j) ==
    LET mine == {m \in DOMAIN updates : updates[m].target = j}
    IN  IF mine = {} THEN people[j].date_known_contact
        ELSE updates[CHOOSE m \in mine : \A n \in mine : n <= m].new

\* C15: an agent's date_known_contact, once set, is never unset and never
\* increases; each update contact_tracing.apply makes for a candidate date c
\* leaves the date at min(old, c) when old is set and at c when it is not.
C15_EarliestNotification ==
    [][/\ \A j \in Agents :
             people[j].date_known_contact # <<>> =>
                 /\ people'[j].date_known_contact # <<>>
                 /\ people'[j].date_known_contact[1] <= people[j].date_known_contact[1]
       /\ TraceApplyStep =>
             /\ \A k \in DOMAIN log'.updates :
                   /\ log'.updates[k].old = DateFound(log'.updates, k)
                   /\ log'.updates[k].new =
                          IF log'.updates[k].old = <<>>
                          THEN <<log'.updates[k].candidate>>
                          ELSE <<Min(log'.updates[k].old[1], log'.updates[k].candidate)>>
             /\ \A j \in Agents :
                   people'[j].date_known_contact = DateLeft(log'.updates, j)]_vars

\* C15's case: in one call a date of 2 met the candidate 1 and became 1,
\* and a date of 2 met the candidate 3 and stayed 2.
C15_Witness ==
    /\ ct.made /\ applied
    /\ \E k \in DOMAIN log.updates :
          /\ log.updates[k].old = <<2>> /\ log.updates[k].candidate = 1
          /\ people[log.updates[k].target].date_known_contact = <<1>>
    /\ \E k \in DOMAIN log.updates :
          /\ log.updates[k].old = <<2>> /\ log.updates[k].candidate = 3
          /\ people[log.updates[k].target].date_known_contact = <<2>>

\* C16: when contact_tracing.apply on day t traces a just-diagnosed agent,
\* every contact in the static trace result, in the agent's accumulated
\* dynamic contacts, or in both, ends the call with date_known_contact
\* <= t + d for every delay d either source assigns to it.
C16_EarliestAcrossSources ==
    (ct.made /\ applied) =>
        \A k \in DOMAIN log.traced :
            \A j \in Agents :
                /\ log.traced[k].static[j] # <<>> =>
                      /\ people[j].date_known_contact # <<>>
                      /\ people[j].date_known_contact[1] <= t + log.traced[k].static[j][1]
                /\ log.traced[k].dynamic[j] # <<>> =>
                      /\ people[j].date_known_contact # <<>>
                      /\ people[j].date_known_contact[1] <= t + log.traced[k].dynamic[j][1]

\* What does hold: the same for the one delay the merged mapping keeps.
C16_EarliestOfMerged ==
    (ct.made /\ applied) =>
        \A k \in DOMAIN log.traced :
            \A j \in Agents :
                log.traced[k].merged[j] # <<>> =>
                    /\ people[j].date_known_contact # <<>>
                    /\ people[j].date_known_contact[1] <= t + log.traced[k].merged[j][1]

\* The agents whose static contacts the claim says are traced on day t.
DiagnosedYesterday ==
    {i \in Agents : people[i].infectious /\ people[i].date_diagnosed = <<t - 1>>}

SeqApplyStep == sq.made /\ ~applied /\ applied'

\* The child (from 0) whose window holds the day: the smallest k with
\* days[0] + ... + days[k] > day.
WindowOf(days, day) ==
    (CHOOSE k \in DOMAIN days :
        /\ SumTo(days, k) > day
        /\ \A j \in 1 .. (k - 1) : SumTo(days, j) <= day) - 1

neighbors(i, layer) == contacts.list[i][layer]

\* The layers built by make_microstructured_contacts: every layer of the
\* clustered model, the household layer of the realistic model.
ClusteredLayers ==
    IF contacts.kind = "clustered" THEN Range(contacts.contact_keys) ELSE {"h"}

\* C20: the contacts produced by make_microstructured_contacts, the
\* household layer of the realistic model included, are symmetric in every
\* layer: j is in neighbors(i) if and only if i is in neighbors(j).
C20_Symmetric ==
    contacts.made =>
        \A layer \in ClusteredLayers :
            \A i \in DOMAIN contacts.list, j \in DOMAIN contacts.list :
                j \in neighbors(i, layer) <=> i \in neighbors(j, layer)

\* C20's case: a realistic population whose first three people are one
\* household and whose school layer, made at random, is not symmetric.
C20_Witness ==
    /\ contacts.made /\ contacts.kind = "realistic"
    /\ neighbors(0, "h") = {1, 2}
    /\ neighbors(1, "h") = {0, 2}
    /\ neighbors(2, "h") = {0, 1}
    /\ 1 \in neighbors(0, "s") /\ 0 \notin neighbors(1, "s")

\* ------------------------------ make_microstructured_contacts: claims

\* The clusters made for a layer, in the order they were made.
ClustersOf(layer_name) ==
    SelectSeq(fill.clusters, LAMBDA c : c.layer_name = layer_name)

\* The layers a returned call was asked for.
FillKeys == {fill.contact_keys[x] : x \in DOMAIN fill.contact_keys}

\* The clusters of a layer are runs of consecutive indices, each starting
\* where the one before ended and as long as its draw, or as the people
\* still unassigned when the draw exceeds them.
ConsecutiveClipped(cl) ==
    \A k \in DOMAIN cl :
        LET first == IF k = 1 THEN 0
                     ELSE CHOOSE u \in cl[k - 1].cluster_indices :
                              \A v \in cl[k - 1].cluster_indices : v <= u
            start == IF k = 1 THEN 0 ELSE first + 1
            unassigned == fill.pop_size - start
        IN  /\ cl[k].n_remaining = unassigned
            /\ cl[k].cluster_indices =
                   {u \in 0 .. fill.pop_size - 1 :
                       /\ u >= start
                       /\ u < start + cl[k].drawn}
            /\ Cardinality(cl[k].cluster_indices) =
                   (IF cl[k].drawn <= unassigned THEN cl[k].drawn ELSE unassigned)

\* The clusters of a layer are disjoint and cover the population.
Partition(cl) ==
    /\ \A k \in DOMAIN cl, m \in DOMAIN cl :
           k # m => cl[k].cluster_indices \cap cl[m].cluster_indices = {}
    /\ UNION {cl[k].cluster_indices : k \in DOMAIN cl} = 0 .. fill.pop_size - 1

\* C21: for every layer the clustered model partitions the agents 0..N-1
\* into disjoint clusters of consecutive indices that cover the population,
\* each as large as its draw clipped to the agents still unassigned, and an
\* agent's neighbor list is exactly the other members of its own cluster.
C21_Cliques ==
    fill.pc = "returned" =>
        \A layer_name \in FillKeys :
            LET cl == ClustersOf(layer_name)
            IN  /\ ConsecutiveClipped(cl)
                /\ Partition(cl)
                /\ \A k \in DOMAIN cl :
                       \A p \in cl[k].cluster_indices :
                           fill.contacts_list[p][layer_name] =
                               cl[k].cluster_indices \ {p}

\* C21's case: four people, a household of a draw of 3 and a second one of a
\* draw of 5 clipped to the one person left.
C21_Witness ==
    /\ fill.pc = "returned" /\ fill.pop_size = 4
    /\ fill.contact_keys = <<"h">>
    /\ Len(fill.clusters) = 2
    /\ fill.clusters[1].drawn = 3 /\ fill.clusters[1].cluster_indices = {0, 1, 2}
    /\ fill.clusters[2].drawn = 5 /\ fill.clusters[2].cluster_indices = {3}
    /\ fill.contacts_list[0].h = {1, 2}
    /\ fill.contacts_list[3].h = {}

\* C22: cluster filling terminates: for every population size, every
\* configured cluster size and every sequence of non-negative draws, the
\* loop of make_microstructured_contacts reaches the state where no agent
\* remains unassigned and the function returns.
C22_Terminates == (fill.pc = "while") ~> (fill.pc = "returned")

\* An iteration that makes a cluster with members leaves fewer people
\* unassigned; the others leave as many.
C22_DrawsOfZeroStall ==
    [][(fill.pc = "while" /\ fill'.pc = "while") =>
          IF fill'.clusters # fill.clusters
          THEN fill'.n_remaining < fill.n_remaining
          ELSE fill'.n_remaining = fill.n_remaining]_vars

\* ------------------------------------------------- the builders: claims

\* The population holds a contact mapping for each of its agents and no
\* other, and every mapping has an entry for every active layer key.
EveryLayerEntry ==
    /\ DOMAIN contacts.list = DOMAIN contacts.uid
    /\ \A p \in DOMAIN contacts.list :
           Range(contacts.contact_keys) \subseteq DOMAIN contacts.list[p]

\* C23: for every population model (random, clustered, realistic, external
\* import) the builder returns exactly N per-agent contact mappings, and
\* every agent's mapping has an entry, possibly empty, for every key of the
\* returned active layer-key list.
C23_EveryLayerEntry == contacts.made => EveryLayerEntry

\* The populations of the random, clustered and realistic models have an
\* entry for every agent and every active layer key.
C23_StructuralModels ==
    (contacts.made /\ contacts.kind # "synthpops") => EveryLayerEntry

\* The household lists of the population, one per agent.
HouseholdLists == [p \in DOMAIN contacts.list |-> contacts.list[p].h]

\* The household lists a clustered household layer can give a population
\* of n people.
ClusteredHouseholds(n) ==
    {[p \in Uids(n) |-> built.contacts_list[p].h]
     : built \in make_microstructured_contacts(n, <<"h">>)}

\* C24: in the realistic model an agent whose age is outside [6, 18) has an
\* empty school-layer list and an agent whose age is outside [18, 65) has an
\* empty work-layer list, while every agent, whatever its age, receives its
\* household-layer list from the clustered household layer.
C24_AgeBands ==
    (contacts.made /\ contacts.kind = "realistic") =>
        /\ \A p \in DOMAIN contacts.list :
               /\ ~(contacts.age[p] >= 6 /\ contacts.age[p] < 18)
                      => contacts.list[p].s = {}
               /\ ~(contacts.age[p] >= 18 /\ contacts.age[p] < 65)
                      => contacts.list[p].w = {}
        /\ HouseholdLists \in ClusteredHouseholds(Cardinality(DOMAIN contacts.list))

\* C24's case: two children of school age with school contacts, and two
\* younger ones who share a household and have no school or work contacts.
C24_Witness ==
    /\ contacts.made /\ contacts.kind = "realistic"
    /\ DOMAIN contacts.list = 0 .. 3
    /\ contacts.age[0] = 17 /\ contacts.list[0].s # {}
    /\ contacts.age[2] = 5
    /\ contacts.list[2] = [h |-> {3}, s |-> {}, w |-> {}]
    /\ contacts.list[3] = [h |-> {2}, s |-> {}, w |-> {}]

\* C25: in the realistic model the school and work layers are age-filtered:
\* every index in an agent's school-layer list is the population index of an
\* agent whose age is in [6, 18), and every index in a work-layer list is
\* the population index of an agent whose age is in [18, 65).
C25_AgeFiltered ==
    (contacts.made /\ contacts.kind = "realistic") =>
        \A p \in DOMAIN contacts.list :
            /\ \A q \in contacts.list[p].s :
                   /\ q \in DOMAIN contacts.age
                   /\ contacts.age[q] >= 6 /\ contacts.age[q] < 18
            /\ \A q \in contacts.list[p].w :
                   /\ q \in DOMAIN contacts.age
                   /\ contacts.age[q] >= 18 /\ contacts.age[q] < 65

\* The indices of the school and work lists are positions among the agents
\* of the age band, not population indices: each is below the number of
\* agents of the band.
C25_IndicesWithinBand ==
    (contacts.made /\ contacts.kind = "realistic") =>
        \A p \in DOMAIN contacts.list :
            /\ \A q \in contacts.list[p].s :
                   q < Cardinality({u \in DOMAIN contacts.age :
                                       contacts.age[u] >= 6 /\ contacts.age[u] < 18})
            /\ \A q \in contacts.list[p].w :
                   q < Cardinality({u \in DOMAIN contacts.age :
                                       contacts.age[u] >= 18 /\ contacts.age[u] < 65})

\* ---------------------------------------------------- make_synthpop: claims

\* The population the import read.
Imported == call.a

\* The name a layer of the external population has after the import.
Renamed(key) ==
    CASE key = "H" -> "h" [] key = "S" -> "s" [] key = "W" -> "w" [] key = "C" -> "c"

\* C26: the import preserves all contact relationships: the uid remap is a
\* bijection from the external uids onto 0..N-1, the position of each agent
\* in the output; the layers H, S, W, C become h, s, w, c; and for every
\* agent and layer the imported list is the external list with each uid
\* replaced by its image, in the same order and with the same length.
C26_ImportPreserves ==
    (contacts.made /\ contacts.kind = "synthpops") =>
        /\ DOMAIN contacts.list = 0 .. Len(Imported) - 1
        /\ \A x \in DOMAIN Imported, y \in DOMAIN Imported :
               Imported[x].uid = Imported[y].uid => x = y
        /\ \A x \in DOMAIN Imported :
               LET external == Imported[x].contacts
                   imported == contacts.list[x - 1]
               IN  /\ DOMAIN imported =
                          {Renamed(external[k].key) : k \in DOMAIN external}
                   /\ \A k \in DOMAIN external :
                          LET old == external[k].uids
                              new == imported[Renamed(external[k].key)]
                          IN  /\ Len(new) = Len(old)
                              /\ \A i \in DOMAIN old :
                                     /\ new[i] \in 0 .. Len(Imported) - 1
                                     /\ Imported[new[i] + 1].uid = old[i]

\* C26's case: two people; the first lives with the second and names
\* itself too, the second goes to school with itself.
C26_Witness ==
    /\ contacts.made /\ contacts.kind = "synthpops"
    /\ Len(Imported) = 2
    /\ Imported[1].uid = "p7" /\ Imported[2].uid = "p3"
    /\ Imported[1].contacts[1] = [key |-> "H", uids |-> <<"p3", "p7">>]
    /\ Imported[2].contacts[2] = [key |-> "S", uids |-> <<"p3">>]
    /\ contacts.list[0].h = <<1, 0>>
    /\ contacts.list[1].s = <<1>>

\* The uids of the population the import read.
ExternalUids == {Imported[x].uid : x \in DOMAIN Imported}

\* C27: in the population returned by the import, the uid recorded for the
\* agent at position p is the integer p, the integer the remapped neighbor
\* lists use for that agent; no external string uid remains in the output.
C27_IntegerUids ==
    (contacts.made /\ contacts.kind = "synthpops") =>
        \A p \in DOMAIN contacts.uid :
            /\ contacts.uid[p] \notin ExternalUids
            /\ contacts.uid[p] = p

\* The uid recorded for the agent at position p is the external uid of the
\* p-th person read, while the neighbor lists name that agent p.
C27_ExternalUidsKept ==
    (contacts.made /\ contacts.kind = "synthpops") =>
        \A p \in DOMAIN contacts.uid : contacts.uid[p] = Imported[p + 1].uid

\* ------------------------------------------------------ make_people: claims

\* A call of make_people has just been made.
MakePeopleStep == call'.kind = "make_people"

\* What the call just made was asked for.
Asked == call'.a
SynthpopsMissing == Asked.pop_type = "synthpops" /\ ~call'.b[1]
UnknownType ==
    Asked.pop_type \notin {"random", "clustered", "realistic", "synthpops"}

\* The call just made raised the exception and left the stored population
\* and the people as they were.
RaisedUnchanged(exception) ==
    /\ sim'.raised = exception
    /\ sim'.popdict = sim.popdict
    /\ sim'.people = sim.people
    /\ sim'.contact_keys = sim.contact_keys

\* C28: when the synthpops population is requested but unavailable,
\* make_people raises and builds no population unless the caller opted into
\* the fallback (die=False), in which case it builds a population with the
\* random model instead; a selector that is none of random, clustered,
\* realistic or synthpops always raises, leaving the stored population
\* unchanged.
C28_Unavailable ==
    [][MakePeopleStep =>
          /\ (SynthpopsMissing /\ Asked.die) =>
                 RaisedUnchanged("ValueError") /\ sim'.built = "none"
          /\ (SynthpopsMissing /\ ~Asked.die) =>
                 /\ sim'.raised = "none"
                 /\ sim'.built = "random"
                 /\ sim'.popdict.kind = "random"
          /\ UnknownType => RaisedUnchanged("NotImplementedError")]_vars

\* The calls that construct a population, those made with no stored
\* dictionary or with reset=True, raise for an unavailable synthpops without
\* fallback and for an unknown selector, and build a random population for
\* an unavailable synthpops with fallback.
C28_WhenConstructing ==
    [][MakePeopleStep =>
          /\ (SynthpopsMissing /\ Asked.die) =>
                 RaisedUnchanged("ValueError") /\ sim'.built = "none"
          /\ (SynthpopsMissing /\ ~Asked.die /\ (~sim.popdict.made \/ Asked.reset)) =>
                 /\ sim'.raised = "none"
                 /\ sim'.built = "random"
                 /\ sim'.popdict.kind = "random"
          /\ (UnknownType /\ (~sim.popdict.made \/ Asked.reset)) =>
                 RaisedUnchanged("NotImplementedError")]_vars

\* With a stored dictionary and reset=False a selector that is none of the
\* four raises nothing: the call returns with the stored population.
C28_UnknownTypeAccepted ==
    [][(MakePeopleStep /\ UnknownType /\ sim.popdict.made /\ ~Asked.reset) =>
          /\ sim'.raised = "none"
          /\ sim'.popdict = sim.popdict]_vars

\* C29: the contact graph is built once: when the simulation already holds
\* a population dictionary and reset is false, make_people builds no new
\* graph and makes no graph-construction draws, and the stored dictionary
\* and active layer keys after the call are the ones held before it; only
\* reset=True, or no stored dictionary, triggers construction.
C29_BuiltOnce ==
    [][MakePeopleStep =>
          /\ (sim.popdict.made /\ ~Asked.reset) =>
                 /\ sim'.built = "none"
                 /\ sim'.popdict = sim.popdict
                 /\ sim'.contact_keys = sim.contact_keys
          /\ sim'.built # "none" => (Asked.reset \/ ~sim.popdict.made)
          /\ ((Asked.reset \/ ~sim.popdict.made) /\ sim'.raised = "none")
                 => sim'.built # "none"]_vars

\* C29's case: a clustered population is asked for without reset of a
\* simulation that holds a random one: nothing is built and the random
\* population stays.
C29_Witness ==
    /\ call.kind = "make_people"
    /\ call.a.pop_type = "clustered" /\ ~call.a.reset
    /\ sim.popdict.made /\ sim.popdict.kind = "random"
    /\ sim.built = "none" /\ sim.raised = "none"
    /\ sim.contact_keys = <<"a">>

\* --------------------------------------------- the random stream: claims

C31_NeverDecreases ==
    [][(SeqApplyStep /\ ind # <<>> /\ ind' # <<>>) => ind'[1] >= ind[1]]_vars

\* Within the windows, on the days t < sum(days), the dispatched index never
\* decreases.
C31_WithinWindows ==
    [][(SeqApplyStep /\ ind # <<>> /\ ind' # <<>>
            /\ t < SumTo(sq.days, Len(sq.days))) => ind'[1] >= ind[1]]_vars

\* On a day after the last window np.argmax finds no cumulative duration
\* above the day and answers 0: the first child is dispatched again.
C31_FirstChildAfterWindows ==
    [][(SeqApplyStep /\ Len(sq.days) > 0
            /\ t >= SumTo(sq.days, Len(sq.days))) => ind' = <<0>>]_vars

\* Days = [1, 1]: day 1 went to child 1 and day 2, after the last window,
\* goes to child 0.
C31_BackToFirst ==
    /\ sq.made /\ applied /\ t = 2
    /\ sq.days = <<1, 1>>
    /\ ind = <<0>>
\* ----------------------------------------- test_prob: the draws of a day

\* C32: on an active day test_prob.apply makes exactly one Bernoulli draw
\* per agent, in population order, whatever the outcomes: a symptomatic
\* agent whose draw fails is not drawn for again with the asymptomatic
\* probability, and the draws of the day are as many as the agents.
C32_OneDrawPerAgent ==
    [][(ProbApplyStep /\ t >= tp.start_day) =>
          /\ Len(log'.draws) = NAgents
          /\ \A i \in Agents :
                Cardinality({k \in DOMAIN log'.draws : log'.draws[k].agent = i}) = 1
          /\ \A k \in DOMAIN log'.draws :
                \A m \in DOMAIN log'.draws :
                    k < m => log'.draws[k].agent < log'.draws[m].agent]_vars

\* C32's case: symptomatic agent 1's draw with symptomatic_prob 1/2 failed,
\* agent 1 was not tested, and the day's draws are one per agent.
C32_Witness ==
    /\ tp.made /\ applied /\ t >= tp.start_day
    /\ people[1].symptomatic
    /\ tp.symptomatic_prob = Half
    /\ log.draws[1].agent = 1 /\ ~log.draws[1].hit
    /\ <<"test", 1>> \notin Range(log.calls)
    /\ Len(log.draws) = NAgents
\* ------------------------------------------- change_beta: what it changes

\* C33: change_beta.apply changes only what it is configured for: on a day
\* matching no schedule entry no parameter changes; on a matching day the
\* overall beta changes only when None is among the configured layers and a
\* layer's entry of the per-layer mapping only when that layer is
\* configured, so that a layered instance leaves the overall beta and the
\* other layers alone and an instance without layers leaves the per-layer
\* mapping alone.
C33_ChangesOnlyConfigured ==
    [][BetaApplyStep =>
          /\ (\A i \in DOMAIN cb.days : cb.days[i] # t) => pars' = pars
          /\ "None" \notin cb.layers => pars'.beta = pars.beta
          /\ DOMAIN pars'.beta_layers = DOMAIN pars.beta_layers
          /\ \A k \in DOMAIN pars.beta_layers :
                k \notin cb.layers => pars'.beta_layers[k] = pars.beta_layers[k]
          /\ cb.layers = {"None"} => pars'.beta_layers = pars.beta_layers]_vars

\* C33's case: days [0] with changes [0.5] on layer 's': the apply of day 0
\* halved the 's' entry and left the overall beta and the 'h' entry as they
\* were.
C33_Witness ==
    /\ cb.made /\ applied /\ t = 0
    /\ cb.days = <<0>> /\ cb.changes = <<Half>> /\ cb.layers = {"s"}
    /\ pars.beta_layers["s"] = Fin(4, 10)
    /\ pars.beta_layers["h"] = DefaultBetaLayers["h"]
    /\ pars.beta = DefaultBeta
\* --------------------------------------------- test_num: budget and tests

\* The agents whose propensity is positive in the apply call made by this
\* step: those not flagged as diagnosed (the boosts are positive factors).
PositivePropensityNext == {i \in Agents : ~people'[i].diagnosed}

\* C34: on every day t < len(daily_tests) test_num.apply adds exactly
\* daily_tests[t] to new_tests[t], whether or not that many agents are
\* tested; the number of agents test is invoked on that day is at most the
\* amount added, and strictly smaller when fewer agents have positive
\* propensity than the budget.
C34_BudgetCounted ==
    [][(TestApplyStep /\ t < Len(tn.daily_tests)) =>
          LET budget == tn.daily_tests[t + 1]
              tested == Fin(Cardinality(log'.tested), 1)
              able == Fin(Cardinality(PositivePropensityNext), 1)
          IN  /\ results'.new_tests[t] = FAdd(results.new_tests[t], budget)
              /\ FLeq(tested, budget)
              /\ ~FLeq(budget, able) => ~FLeq(budget, tested)]_vars

\* C34's case: both agents were flagged as diagnosed by day 1's
\* check_diagnosed calls; day 1's budget of 2 was added to new_tests[1] and
\* the draw found nobody to test.
C34_Witness ==
    /\ tn.made /\ applied /\ t = 1
    /\ Len(tn.daily_tests) = 2 /\ tn.daily_tests[2] = Fin(2, 1)
    /\ \A i \in Agents : people[i].diagnosed
    /\ log.drew /\ log.tested = {}
    /\ results.new_tests[1] = Fin(2, 1)
\* -------------------------------------- test_historical: tests and count

\* The agents test was invoked on by the test_historical.apply call made by
\* this step.
HistTestedNext == log'.positive_inds \cup log'.negative_inds

\* C35: on every day the number of agents test_historical.apply invokes
\* test on, positive pool plus negative pool, never exceeds n_tests[t], the
\* amount it adds to new_tests[t], for every combination of n_tests[t],
\* n_positive[t] and number of infectious agents.
C35_TestedWithinCount ==
    [][HistApplyStep =>
          /\ FLeq(FAdd(results.new_tests[t], Fin(Cardinality(HistTestedNext), 1)),
                  results'.new_tests[t])
          /\ log'.drew =>
                /\ results'.new_tests[t] =
                       FAdd(results.new_tests[t], Fin(th.n_tests[t + 1], 1))
                /\ Cardinality(HistTestedNext) <= th.n_tests[t + 1]]_vars

\* On the days whose n_positive[t] is at most n_tests[t] the agents tested
\* are at most n_tests[t].
C35_WhenPositivesWithinTests ==
    [][(/\ HistApplyStep /\ log'.drew
        /\ th.n_positive[t + 1] <= th.n_tests[t + 1]) =>
          /\ results'.new_tests[t] =
                 FAdd(results.new_tests[t], Fin(th.n_tests[t + 1], 1))
          /\ Cardinality(HistTestedNext) <= th.n_tests[t + 1]]_vars

\* The tests of a day exceed its count only through the positive pool: the
\* day names more positives than tests and more agents are infectious than
\* it names tests.
C35_OnlyThroughPositivePool ==
    [][(/\ HistApplyStep /\ log'.drew
        /\ Cardinality(HistTestedNext) > th.n_tests[t + 1]) =>
          /\ th.n_positive[t + 1] > th.n_tests[t + 1]
          /\ Cardinality(Infectious) > th.n_tests[t + 1]
          /\ log'.negative_inds = {}]_vars

\* n_tests = [1], n_positive = [2], both agents infectious: day 0 tested
\* both and counted one test.
C35_MoreTestedThanCounted ==
    /\ th.made /\ applied /\ t = 0
    /\ th.n_tests = <<1>> /\ th.n_positive = <<2>>
    /\ log.positive_inds = {1, 2}
    /\ results.new_tests[0] = One
    /\ results.new_diagnoses[0] = 2

====
